---- MODULE Spec2Model ----
(***************************************************************************)
(* Forecast verification of gewittergefahr/gg_utils/model_evaluation.py.   *)
(*                                                                         *)
(* The module is a library of functions.  A caller is modelled who, from   *)
(* the idle state, makes one call with arguments drawn from bounded sets;  *)
(* the call and what it returned (or that it raised) are the state, and    *)
(* Return brings the caller back to idle.  Where a function receives the   *)
(* caller's forecast_probabilities and observed_labels, arrays holds what  *)
(* is in the two arrays once the call is over.  A bootstrap function may   *)
(* be run a second time on the same arrays with the random source set back *)
(* to where the first run found it; first_run keeps the first result.      *)
(*                                                                         *)
(* Numbers.  Probabilities and binarization thresholds are integers in     *)
(* units of 1e-6 (1.0 is ONE, the tolerance 1e-6 is TOLERANCE).  Scores    *)
(* are floating-point values: a record [k, n, d] that is an exact fraction *)
(* n/d (k = "num"), a NaN (k = "nan") or an infinity of sign n             *)
(* (k = "inf").  Rounding error of the floating-point unit is not          *)
(* modelled; NaN, infinities and Python's ZeroDivisionError are.           *)
(***************************************************************************)
EXTENDS Integers, Sequences, FiniteSets, TLC

VARIABLES pc, call, result, arrays, first_run

vars == <<pc, call, result, arrays, first_run>>

-----------------------------------------------------------------------------
(* Bounds of the model *)

\* largest count in one cell of a contingency table handed to a score
MaxCount == 3

\* largest number of forecasts (length of an array of probabilities or labels)
MaxN == 3

\* largest number of binarization thresholds asked for by count
MaxNumThresholds == 3

\* largest number of points handed to get_area_under_roc_curve
MaxPoints == 3

\* largest number of forecast bins, and of examples in one bin, handed to
\* get_brier_skill_score
MaxBins == 2
MaxBinCount == 2

\* largest number of bootstrap iterations
MaxBootstrapIters == 2

\* largest number of replicates of bootstrap_cost
MaxReplicates == 2

\* largest distance in seconds of a time from midnight, noon and 1800 UTC
MaxSecondsFromNoon == 1

\* climatologies and forecasts of the no-skill line are multiples of
\* 1 / NumNoSkillSteps
NumNoSkillSteps == 8

\* the number of iterations of a bootstrap function with many iterations
ManyBootstrapIters == 41

-----------------------------------------------------------------------------
(* Program constants *)

ONE == 1000000
TOLERANCE == 1
MIN_BINARIZATION_THRESHOLD == 0
MAX_BINARIZATION_THRESHOLD == ONE + TOLERANCE

-----------------------------------------------------------------------------
(* Floating-point values *)

Abs(i) == IF i < 0 THEN -i ELSE i

RECURSIVE GCD(_, _)
GCD(a, b) == IF b = 0 THEN a ELSE GCD(b, a % b)

NaN == [k |-> "nan", n |-> 0, d |-> 1]
PosInf == [k |-> "inf", n |-> 1, d |-> 1]
NegInf == [k |-> "inf", n |-> -1, d |-> 1]
\* what a Python expression leaves behind when it raises ZeroDivisionError
ZeroDivisionError == [k |-> "ZeroDivisionError", n |-> 0, d |-> 1]

\* the fraction n/d in lowest terms, d # 0
Rat(n, d) ==
    LET s == IF d < 0 THEN -1 ELSE 1
        g == GCD(Abs(n), Abs(d))
    IN  [k |-> "num", n |-> (s * n) \div g, d |-> (s * d) \div g]

IsNaN(x) == x.k = "nan"
IsNum(x) == x.k = "num"
IsInf(x) == x.k = "inf"
Sign(i) == IF i > 0 THEN 1 ELSE IF i < 0 THEN -1 ELSE 0

\* IEEE-754 addition
FAdd(x, y) ==
    IF IsNaN(x) \/ IsNaN(y) THEN NaN
    ELSE IF IsInf(x) /\ IsInf(y) THEN (IF x.n = y.n THEN x ELSE NaN)
    ELSE IF IsInf(x) THEN x
    ELSE IF IsInf(y) THEN y
    ELSE Rat(x.n * y.d + y.n * x.d, x.d * y.d)

FNeg(x) == IF IsNaN(x) THEN NaN ELSE [x EXCEPT !.n = -x.n]

FSub(x, y) == FAdd(x, FNeg(y))

\* IEEE-754 multiplication
FMul(x, y) ==
    IF IsNaN(x) \/ IsNaN(y) THEN NaN
    ELSE IF IsInf(x) \/ IsInf(y)
         THEN (IF Sign(x.n) * Sign(y.n) = 0 THEN NaN
               ELSE IF Sign(x.n) * Sign(y.n) > 0 THEN PosInf ELSE NegInf)
    ELSE Rat(x.n * y.n, x.d * y.d)

\* IEEE-754 division as numpy performs it on float64 operands: a zero
\* divisor gives NaN or an infinity (and a RuntimeWarning), never an exception
NumpyDivide(x, y) ==
    IF IsNaN(x) \/ IsNaN(y) THEN NaN
    ELSE IF IsInf(x) /\ IsInf(y) THEN NaN
    ELSE IF IsInf(x) THEN (IF Sign(y.n) < 0 THEN FNeg(x) ELSE x)
    ELSE IF IsInf(y) THEN Rat(0, 1)
    ELSE IF y.n = 0
         THEN (IF x.n = 0 THEN NaN ELSE IF x.n > 0 THEN PosInf ELSE NegInf)
    ELSE Rat(x.n * y.d, x.d * y.n)

\* float(a) / b for Python integers a and b
PyTrueDiv(a, b) == IF b = 0 THEN ZeroDivisionError ELSE Rat(a, b)

\* comparisons; every comparison with a NaN is false
FLeq(x, y) ==
    /\ ~IsNaN(x) /\ ~IsNaN(y)
    /\ IF IsInf(x) THEN (x.n < 0 \/ x = y)
       ELSE IF IsInf(y) THEN y.n > 0
       ELSE x.n * y.d <= y.n * x.d

FGt(x, y) == FLeq(y, x) /\ x # y

FZero == Rat(0, 1)
FOne == Rat(1, 1)

-----------------------------------------------------------------------------
(* What a call leaves behind: a returned value or a raised exception *)

NoCall == [fn |-> "none"]
NoResult == [raised |-> FALSE, value |-> <<>>]
Returned(v) == [raised |-> FALSE, value |-> v]
Raised == [raised |-> TRUE, value |-> <<>>]
\* an uncaught ZeroDivisionError leaves the function as an exception
Outcome(v) == IF v = ZeroDivisionError THEN Raised ELSE Returned(v)

\* no array of the caller is followed
NoArrays == [forecast_probabilities |-> <<>>, observed_labels |-> <<>>]

-----------------------------------------------------------------------------
(* Contingency-table scores *)

ContingencyTable(tp, fp, fn, tn) ==
    [num_true_positives |-> tp, num_false_positives |-> fp,
     num_false_negatives |-> fn, num_true_negatives |-> tn]

\* try: return <quotient>  except ZeroDivisionError: return numpy.nan
OrNaN(q) == IF q = ZeroDivisionError THEN NaN ELSE q

get_pod_unguarded(t) ==
    PyTrueDiv(t.num_true_positives,
              t.num_true_positives + t.num_false_negatives)

get_pod(t) ==
    OrNaN(PyTrueDiv(t.num_true_positives,
                    t.num_true_positives + t.num_false_negatives))

get_fom(t) == FSub(FOne, get_pod(t))

\* divides by the number of "yes" forecasts
get_pofd_of_yes_forecasts(t) ==
    OrNaN(PyTrueDiv(t.num_false_positives,
                    t.num_false_positives + t.num_true_positives))

get_pofd(t) ==
    OrNaN(PyTrueDiv(t.num_false_positives,
                    t.num_false_positives + t.num_true_negatives))

get_npv(t) == FSub(FOne, get_pofd(t))

get_success_ratio(t) ==
    OrNaN(PyTrueDiv(t.num_true_positives,
                    t.num_true_positives + t.num_false_positives))

\* the complement of the probability of detection
get_far_of_pod(t) == FSub(FOne, get_pod(t))

get_far(t) == FSub(FOne, get_success_ratio(t))

get_dfr(t) ==
    OrNaN(PyTrueDiv(t.num_false_negatives,
                    t.num_false_negatives + t.num_true_negatives))

get_focn(t) == FSub(FOne, get_dfr(t))

get_accuracy(t) ==
    OrNaN(PyTrueDiv(t.num_true_positives + t.num_true_negatives,
                    t.num_true_positives + t.num_false_positives
                    + t.num_false_negatives + t.num_true_negatives))

get_csi(t) ==
    OrNaN(PyTrueDiv(t.num_true_positives,
                    t.num_true_positives + t.num_false_positives
                    + t.num_false_negatives))

get_frequency_bias(t) ==
    OrNaN(PyTrueDiv(t.num_true_positives + t.num_false_positives,
                    t.num_true_positives + t.num_false_negatives))

get_peirce_score(t) == FSub(get_pod(t), get_pofd(t))

\* the grouping (TP+FP)(FN+TN) + (TP+FN)(FP+TN)
get_heidke_score_regrouped(t) ==
    LET numerator == 2 * (t.num_true_positives * t.num_true_negatives
                          - t.num_false_positives * t.num_false_negatives)
        num_positives == t.num_true_positives + t.num_false_positives
        num_negatives == t.num_true_negatives + t.num_false_negatives
        num_events == t.num_true_positives + t.num_false_negatives
        num_non_events == t.num_true_negatives + t.num_false_positives
    IN  OrNaN(PyTrueDiv(numerator, num_positives * num_negatives
                                   + num_events * num_non_events))

get_heidke_score(t) ==
    LET numerator == 2 * (t.num_true_positives * t.num_true_negatives
                          - t.num_false_positives * t.num_false_negatives)
        num_positives == t.num_true_positives + t.num_false_positives
        num_negatives == t.num_true_negatives + t.num_false_negatives
        num_events == t.num_true_positives + t.num_false_negatives
        num_non_events == t.num_true_negatives + t.num_false_positives
    IN  OrNaN(PyTrueDiv(numerator, num_positives * num_non_events
                                   + num_negatives * num_events))

\* x ** -1 on a numpy float array
Reciprocal(x) == NumpyDivide(FOne, x)

\* success_ratio * pod / (success_ratio + pod): no reciprocals, so 0/0 at 0
csi_from_sr_and_pod_product_form(success_ratio, pod) ==
    NumpyDivide(FMul(success_ratio, pod),
                FSub(FAdd(success_ratio, pod), FMul(success_ratio, pod)))

csi_from_sr_and_pod(success_ratio, pod) ==
    Reciprocal(FSub(FAdd(Reciprocal(success_ratio), Reciprocal(pod)), FOne))

ScoreFunctions ==
    {"get_pod", "get_fom", "get_pofd", "get_npv", "get_success_ratio",
     "get_far", "get_dfr", "get_focn", "get_accuracy", "get_csi",
     "get_frequency_bias", "get_peirce_score", "get_heidke_score"}

ApplyScore(fn, t) ==
    CASE fn = "get_pod" -> get_pod(t)
      [] fn = "get_fom" -> get_fom(t)
      [] fn = "get_pofd" -> get_pofd(t)
      [] fn = "get_npv" -> get_npv(t)
      [] fn = "get_success_ratio" -> get_success_ratio(t)
      [] fn = "get_far" -> get_far(t)
      [] fn = "get_dfr" -> get_dfr(t)
      [] fn = "get_focn" -> get_focn(t)
      [] fn = "get_accuracy" -> get_accuracy(t)
      [] fn = "get_csi" -> get_csi(t)
      [] fn = "get_frequency_bias" -> get_frequency_bias(t)
      [] fn = "get_peirce_score" -> get_peirce_score(t)
      [] fn = "get_heidke_score" -> get_heidke_score(t)

-----------------------------------------------------------------------------
(* Arrays *)

RECURSIVE SeqsUpTo(_, _)
\* the arrays over S of length at most n
SeqsUpTo(S, n) ==
    IF n = 0 THEN {<<>>}
    ELSE LET shorter == SeqsUpTo(S, n - 1)
         IN  shorter \cup {Append(a, x) : a \in {b \in shorter : Len(b) = n - 1},
                                          x \in S}

RECURSIVE InsertSorted(_, _)
InsertSorted(a, x) ==
    IF a = <<>> THEN <<x>>
    ELSE IF x < Head(a) THEN <<x>> \o a
    ELSE <<Head(a)>> \o InsertSorted(Tail(a), x)

RECURSIVE NumpySort(_)
\* numpy.sort: ascending, duplicates kept
NumpySort(a) ==
    IF a = <<>> THEN <<>>
    ELSE InsertSorted(NumpySort(SubSeq(a, 1, Len(a) - 1)), a[Len(a)])

RECURSIVE SortedSeqOfSet(_)
SortedSeqOfSet(S) ==
    IF S = {} THEN <<>>
    ELSE LET m == CHOOSE x \in S : \A y \in S : x <= y
         IN  <<m>> \o SortedSeqOfSet(S \ {m})

\* numpy.unique: the distinct values, ascending
NumpyUnique(a) == SortedSeqOfSet({a[i] : i \in DOMAIN a})

\* rounder.round_to_nearest: rounding_base * numpy.round(x / rounding_base),
\* numpy.round taking halves to the even neighbour
RoundToNearest(x, rounding_base) ==
    LET q == x \div rounding_base
        r == x % rounding_base
        up == \/ 2 * r > rounding_base
              \/ 2 * r = rounding_base /\ q % 2 = 1
    IN  rounding_base * (IF up THEN q + 1 ELSE q)

round_to_nearest(a, rounding_base) ==
    IF rounding_base <= 0 THEN Raised
    ELSE Returned([i \in DOMAIN a |-> RoundToNearest(a[i], rounding_base)])

-----------------------------------------------------------------------------
(* Binarization thresholds, binarization, contingency table *)

THRESHOLD_ARG_FOR_UNIQUE_FORECASTS == "unique_forecasts"

\* the three formats of threshold_arg (and a number that is no integer)
StringArg(s) == [kind |-> "str", str |-> s, array |-> <<>>, num |-> 0]
ArrayArg(a) == [kind |-> "ndarray", str |-> "", array |-> a, num |-> 0]
IntegerArg(n) == [kind |-> "int", str |-> "", array |-> <<>>, num |-> n]
RealArg == [kind |-> "float", str |-> "", array |-> <<>>, num |-> 0]

\* the checks with 2 as the largest label
check_forecast_probs_and_labels_up_to_two(forecast_probabilities, observed_labels) ==
    /\ \A i \in DOMAIN forecast_probabilities :
          forecast_probabilities[i] >= 0 /\ forecast_probabilities[i] <= ONE
    /\ Len(observed_labels) = Len(forecast_probabilities)
    /\ \A i \in DOMAIN observed_labels :
          observed_labels[i] >= 0 /\ observed_labels[i] <= 2

\* TRUE when the checks pass, FALSE when one of them raises
check_forecast_probs_and_observed_labels(forecast_probabilities, observed_labels) ==
    /\ \A i \in DOMAIN forecast_probabilities :
          forecast_probabilities[i] >= 0 /\ forecast_probabilities[i] <= ONE
    /\ Len(observed_labels) = Len(forecast_probabilities)
    /\ \A i \in DOMAIN observed_labels :
          observed_labels[i] >= 0 /\ observed_labels[i] <= 1

check_forecast_and_observed_labels(forecast_labels, observed_labels) ==
    /\ \A i \in DOMAIN forecast_labels :
          forecast_labels[i] >= 0 /\ forecast_labels[i] <= 1
    /\ Len(observed_labels) = Len(forecast_labels)
    /\ \A i \in DOMAIN observed_labels :
          observed_labels[i] >= 0 /\ observed_labels[i] <= 1

\* pads without sorting first
pad_binarization_thresholds_unsorted(thresholds) ==
    IF thresholds = <<>> THEN Raised
    ELSE LET low == IF thresholds[1] > MIN_BINARIZATION_THRESHOLD
                    THEN <<MIN_BINARIZATION_THRESHOLD>> \o thresholds
                    ELSE thresholds
             both == IF low[Len(low)] < MAX_BINARIZATION_THRESHOLD
                     THEN low \o <<MAX_BINARIZATION_THRESHOLD>>
                     ELSE low
         IN  Returned(both)

\* pads at the low end only
pad_binarization_thresholds_low_end(thresholds) ==
    IF thresholds = <<>> THEN Raised
    ELSE LET sorted == NumpySort(thresholds)
         IN  Returned(IF sorted[1] > MIN_BINARIZATION_THRESHOLD
                      THEN <<MIN_BINARIZATION_THRESHOLD>> \o sorted
                      ELSE sorted)

\* thresholds[0] of an empty array raises IndexError
pad_binarization_thresholds(thresholds) ==
    IF thresholds = <<>> THEN Raised
    ELSE LET sorted == NumpySort(thresholds)
             low == IF sorted[1] > MIN_BINARIZATION_THRESHOLD
                    THEN <<MIN_BINARIZATION_THRESHOLD>> \o sorted
                    ELSE sorted
             both == IF low[Len(low)] < MAX_BINARIZATION_THRESHOLD
                     THEN low \o <<MAX_BINARIZATION_THRESHOLD>>
                     ELSE low
         IN  Returned(both)

\* numpy.linspace(0., 1., num), to the 1e-6 the thresholds are kept in
Linspace(num) == [i \in 1..num |-> ((i - 1) * ONE) \div (num - 1)]

\* takes a precision of up to 0.1
get_binarization_thresholds_wide_precision(threshold_arg, forecast_probabilities, unique_forecast_precision) ==
    IF threshold_arg.kind = "str"
    THEN IF threshold_arg.str # THRESHOLD_ARG_FOR_UNIQUE_FORECASTS
         THEN Raised
         ELSE IF ~(unique_forecast_precision >= 0
                   /\ unique_forecast_precision <= ONE \div 10)
         THEN Raised
         ELSE LET rounded == round_to_nearest(forecast_probabilities,
                                              unique_forecast_precision)
              IN  IF rounded.raised THEN Raised
                  ELSE pad_binarization_thresholds(NumpyUnique(rounded.value))
    ELSE IF threshold_arg.kind = "ndarray"
    THEN IF \A i \in DOMAIN threshold_arg.array :
               /\ threshold_arg.array[i] >= MIN_BINARIZATION_THRESHOLD
               /\ threshold_arg.array[i] <= MAX_BINARIZATION_THRESHOLD
         THEN pad_binarization_thresholds(threshold_arg.array)
         ELSE Raised
    ELSE IF threshold_arg.kind = "int" /\ threshold_arg.num >= 2
    THEN pad_binarization_thresholds(Linspace(threshold_arg.num))
    ELSE Raised

\* takes the thresholds of an array from [0, 1] only
get_binarization_thresholds_unit_interval(threshold_arg, forecast_probabilities, unique_forecast_precision) ==
    IF threshold_arg.kind = "str"
    THEN IF threshold_arg.str # THRESHOLD_ARG_FOR_UNIQUE_FORECASTS
         THEN Raised
         ELSE IF ~(unique_forecast_precision >= 0
                   /\ unique_forecast_precision <= ONE \div 100)
         THEN Raised
         ELSE LET rounded == round_to_nearest(forecast_probabilities,
                                              unique_forecast_precision)
              IN  IF rounded.raised THEN Raised
                  ELSE pad_binarization_thresholds(NumpyUnique(rounded.value))
    ELSE IF threshold_arg.kind = "ndarray"
    THEN IF \A i \in DOMAIN threshold_arg.array :
               /\ threshold_arg.array[i] >= MIN_BINARIZATION_THRESHOLD
               /\ threshold_arg.array[i] <= ONE
         THEN pad_binarization_thresholds(threshold_arg.array)
         ELSE Raised
    ELSE IF threshold_arg.kind = "int" /\ threshold_arg.num >= 2
    THEN pad_binarization_thresholds(Linspace(threshold_arg.num))
    ELSE Raised

get_binarization_thresholds(threshold_arg, forecast_probabilities, unique_forecast_precision) ==
    IF threshold_arg.kind = "str"
    THEN IF threshold_arg.str # THRESHOLD_ARG_FOR_UNIQUE_FORECASTS
         THEN Raised
         ELSE IF ~(unique_forecast_precision >= 0
                   /\ unique_forecast_precision <= ONE \div 100)
         THEN Raised
         ELSE LET rounded == round_to_nearest(forecast_probabilities,
                                              unique_forecast_precision)
              IN  IF rounded.raised THEN Raised
                  ELSE pad_binarization_thresholds(NumpyUnique(rounded.value))
    ELSE IF threshold_arg.kind = "ndarray"
    THEN IF \A i \in DOMAIN threshold_arg.array :
               /\ threshold_arg.array[i] >= MIN_BINARIZATION_THRESHOLD
               /\ threshold_arg.array[i] <= MAX_BINARIZATION_THRESHOLD
         THEN pad_binarization_thresholds(threshold_arg.array)
         ELSE Raised
    ELSE IF threshold_arg.kind = "int" /\ threshold_arg.num >= 2
    THEN pad_binarization_thresholds(Linspace(threshold_arg.num))
    ELSE Raised

\* "yes" only above the threshold
binarize_forecast_probs_strict(forecast_probabilities, binarization_threshold) ==
    IF /\ \A i \in DOMAIN forecast_probabilities :
             forecast_probabilities[i] >= 0 /\ forecast_probabilities[i] <= ONE
       /\ binarization_threshold >= MIN_BINARIZATION_THRESHOLD
       /\ binarization_threshold <= MAX_BINARIZATION_THRESHOLD
    THEN Returned([i \in DOMAIN forecast_probabilities |->
                     IF forecast_probabilities[i] > binarization_threshold
                     THEN 1 ELSE 0])
    ELSE Raised

\* "yes" at and below the threshold
binarize_forecast_probs_inverted(forecast_probabilities, binarization_threshold) ==
    IF /\ \A i \in DOMAIN forecast_probabilities :
             forecast_probabilities[i] >= 0 /\ forecast_probabilities[i] <= ONE
       /\ binarization_threshold >= MIN_BINARIZATION_THRESHOLD
       /\ binarization_threshold <= MAX_BINARIZATION_THRESHOLD
    THEN Returned([i \in DOMAIN forecast_probabilities |->
                     IF forecast_probabilities[i] <= binarization_threshold
                     THEN 1 ELSE 0])
    ELSE Raised

binarize_forecast_probs(forecast_probabilities, binarization_threshold) ==
    IF /\ \A i \in DOMAIN forecast_probabilities :
             forecast_probabilities[i] >= 0 /\ forecast_probabilities[i] <= ONE
       /\ binarization_threshold >= MIN_BINARIZATION_THRESHOLD
       /\ binarization_threshold <= MAX_BINARIZATION_THRESHOLD
    THEN Returned([i \in DOMAIN forecast_probabilities |->
                     IF forecast_probabilities[i] >= binarization_threshold
                     THEN 1 ELSE 0])
    ELSE Raised

\* len(numpy.where(logical_and(forecast_labels == f, observed_labels == o))[0])
NumWhere(forecast_labels, f, observed_labels, o) ==
    Cardinality({i \in DOMAIN forecast_labels :
                    forecast_labels[i] = f /\ observed_labels[i] = o})

\* the misses counted where the forecast is "yes"
get_contingency_table_miscounted(forecast_labels, observed_labels) ==
    IF ~check_forecast_and_observed_labels(forecast_labels, observed_labels)
    THEN Raised
    ELSE Returned(ContingencyTable(
             NumWhere(forecast_labels, 1, observed_labels, 1),
             NumWhere(forecast_labels, 1, observed_labels, 0),
             NumWhere(forecast_labels, 1, observed_labels, 1),
             NumWhere(forecast_labels, 0, observed_labels, 0)))

get_contingency_table(forecast_labels, observed_labels) ==
    IF ~check_forecast_and_observed_labels(forecast_labels, observed_labels)
    THEN Raised
    ELSE Returned(ContingencyTable(
             NumWhere(forecast_labels, 1, observed_labels, 1),
             NumWhere(forecast_labels, 1, observed_labels, 0),
             NumWhere(forecast_labels, 0, observed_labels, 1),
             NumWhere(forecast_labels, 0, observed_labels, 0)))

-----------------------------------------------------------------------------
(* Threshold sweeps: ROC curve and performance diagram *)

\* the contingency table of the forecasts binarized at one threshold; called
\* on probabilities and labels that passed their checks
TableAtThreshold(forecast_probabilities, observed_labels, threshold) ==
    LET these_forecast_labels ==
            binarize_forecast_probs(forecast_probabilities, threshold)
    IN  IF these_forecast_labels.raised THEN Raised
        ELSE get_contingency_table(these_forecast_labels.value,
                                   observed_labels)

\* The loop over the thresholds.  x_score names get_pofd (ROC curve) or
\* get_success_ratio (performance diagram).  Besides the two arrays the
\* function returns, the value keeps the thresholds and the tables of the
\* loop, which the function discards.
SweepThresholds(forecast_probabilities, observed_labels, thresholds, x_score) ==
    LET num_thresholds == Len(thresholds)
        table(i) == TableAtThreshold(forecast_probabilities, observed_labels,
                                     thresholds[i])
    IN  IF \E i \in 1..num_thresholds : table(i).raised THEN Raised
        ELSE Returned(
            [binarization_thresholds |-> thresholds,
             contingency_tables |->
                 [i \in 1..num_thresholds |-> table(i).value],
             x_by_threshold |->
                 [i \in 1..num_thresholds |-> ApplyScore(x_score, table(i).value)],
             pod_by_threshold |->
                 [i \in 1..num_thresholds |-> get_pod(table(i).value)]])

get_points_in_roc_curve(forecast_probabilities, observed_labels, threshold_arg, unique_forecast_precision) ==
    IF ~check_forecast_probs_and_observed_labels(forecast_probabilities,
                                                 observed_labels)
    THEN Raised
    ELSE LET binarization_thresholds ==
                 get_binarization_thresholds(threshold_arg,
                                             forecast_probabilities,
                                             unique_forecast_precision)
         IN  IF binarization_thresholds.raised THEN Raised
             ELSE SweepThresholds(forecast_probabilities, observed_labels,
                                  binarization_thresholds.value, "get_pofd")

get_points_in_performance_diagram(forecast_probabilities, observed_labels, threshold_arg, unique_forecast_precision) ==
    IF ~check_forecast_probs_and_observed_labels(forecast_probabilities,
                                                 observed_labels)
    THEN Raised
    ELSE LET binarization_thresholds ==
                 get_binarization_thresholds(threshold_arg,
                                             forecast_probabilities,
                                             unique_forecast_precision)
         IN  IF binarization_thresholds.raised THEN Raised
             ELSE SweepThresholds(forecast_probabilities, observed_labels,
                                  binarization_thresholds.value,
                                  "get_success_ratio")

-----------------------------------------------------------------------------
(* Area under the ROC curve *)

InUnitIntervalOrNaN(x) == IsNaN(x) \/ (FLeq(FZero, x) /\ FLeq(x, FOne))

\* The index arrays numpy.argsort(-a) may return: the values in descending
\* order with the NaNs last.  The default sort is not stable, so equal
\* values come in any order.
ArgsortDescending(a) ==
    {perm \in Permutations(1..Len(a)) :
        \A i, j \in 1..Len(a) :
            i < j => \/ IsNaN(a[perm[j]])
                     \/ FLeq(a[perm[j]], a[perm[i]])}

\* a[indices]
Take(a, indices) == [i \in 1..Len(indices) |-> a[indices[i]]]

RECURSIVE Trapz(_, _)
\* numpy.trapz(y, x)
Trapz(y, x) ==
    IF Len(x) < 2 THEN FZero
    ELSE FAdd(FMul(FSub(x[2], x[1]),
                   FMul(FAdd(y[1], y[2]), Rat(1, 2))),
              Trapz(Tail(y), Tail(x)))

\* sklearn.metrics.auc(x, y): needs two points and a monotonic x
SklearnAuc(x, y) ==
    IF Len(x) < 2 THEN Raised
    ELSE LET falls == \E i \in 1..(Len(x) - 1) : FGt(x[i], x[i + 1])
             rises == \E i \in 1..(Len(x) - 1) : FGt(x[i + 1], x[i])
         IN  IF falls /\ rises THEN Raised
             ELSE IF falls THEN Returned(FNeg(Trapz(y, x)))
             ELSE Returned(Trapz(y, x))

\* keeps the pairs with a NaN
get_area_under_roc_curve_keeping_nan(pofd_by_threshold, pod_by_threshold, sort_indices) ==
    IF ~(/\ \A i \in DOMAIN pofd_by_threshold :
               InUnitIntervalOrNaN(pofd_by_threshold[i])
         /\ Len(pod_by_threshold) = Len(pofd_by_threshold)
         /\ \A i \in DOMAIN pod_by_threshold :
               InUnitIntervalOrNaN(pod_by_threshold[i]))
    THEN Raised
    ELSE LET pofd == Take(pofd_by_threshold, sort_indices)
             pod == Take(pod_by_threshold, sort_indices)
             area == SklearnAuc(pofd, pod)
         IN  IF \A i \in DOMAIN pofd : IsNaN(pofd[i]) \/ IsNaN(pod[i])
             THEN Returned(NaN)
             ELSE IF \E i \in DOMAIN pofd : IsNaN(pofd[i]) \/ IsNaN(pod[i])
             THEN Returned(NaN)
             ELSE area

\* sort_indices is what numpy.argsort(-pofd_by_threshold) returned
get_area_under_roc_curve(pofd_by_threshold, pod_by_threshold, sort_indices) ==
    IF ~(/\ \A i \in DOMAIN pofd_by_threshold :
               InUnitIntervalOrNaN(pofd_by_threshold[i])
         /\ Len(pod_by_threshold) = Len(pofd_by_threshold)
         /\ \A i \in DOMAIN pod_by_threshold :
               InUnitIntervalOrNaN(pod_by_threshold[i]))
    THEN Raised
    ELSE LET pofd == Take(pofd_by_threshold, sort_indices)
             pod == Take(pod_by_threshold, sort_indices)
             nan_flags == [i \in DOMAIN pofd |->
                              IsNaN(pofd[i]) \/ IsNaN(pod[i])]
             real_indices == SelectSeq([i \in DOMAIN pofd |-> i],
                                       LAMBDA i : ~nan_flags[i])
         IN  IF \A i \in DOMAIN nan_flags : nan_flags[i]
             THEN Returned(NaN)
             ELSE SklearnAuc(Take(pofd, real_indices),
                             Take(pod, real_indices))

-----------------------------------------------------------------------------
(* Brier skill score *)

RECURSIVE SumKeepingNaN(_)
\* numpy.sum: a NaN makes the sum NaN
SumKeepingNaN(a) ==
    IF a = <<>> THEN FZero ELSE FAdd(Head(a), SumKeepingNaN(Tail(a)))

RECURSIVE NanSum(_)
\* numpy.nansum: the sum with every NaN taken as zero
NanSum(a) ==
    IF a = <<>> THEN FZero
    ELSE FAdd(IF IsNaN(Head(a)) THEN FZero ELSE Head(a), NanSum(Tail(a)))

RECURSIVE IntSum(_)
\* numpy.sum of an integer array
IntSum(a) == IF a = <<>> THEN 0 ELSE Head(a) + IntSum(Tail(a))

Square(x) == FMul(x, x)

\* reliability and resolution are numpy.float64 (numpy.nansum / numpy.sum),
\* so the division by uncertainty is numpy's and ZeroDivisionError, which
\* the function catches, is never raised
get_brier_skill_score(mean_forecast_prob_by_bin, mean_observed_label_by_bin, num_examples_by_bin, climatology) ==
    IF ~(/\ \A i \in DOMAIN mean_forecast_prob_by_bin :
               InUnitIntervalOrNaN(mean_forecast_prob_by_bin[i])
         /\ Len(mean_observed_label_by_bin) = Len(mean_forecast_prob_by_bin)
         /\ \A i \in DOMAIN mean_observed_label_by_bin :
               InUnitIntervalOrNaN(mean_observed_label_by_bin[i])
         /\ Len(num_examples_by_bin) = Len(mean_forecast_prob_by_bin)
         /\ \A i \in DOMAIN num_examples_by_bin : num_examples_by_bin[i] >= 0
         /\ FLeq(FZero, climatology) /\ FLeq(climatology, FOne))
    THEN Raised
    ELSE LET bins == DOMAIN mean_forecast_prob_by_bin
             num_examples == Rat(IntSum(num_examples_by_bin), 1)
             uncertainty == FMul(climatology, FSub(FOne, climatology))
             reliability ==
                 NumpyDivide(
                     NanSum([i \in bins |->
                         FMul(Rat(num_examples_by_bin[i], 1),
                              Square(FSub(mean_forecast_prob_by_bin[i],
                                          mean_observed_label_by_bin[i])))]),
                     num_examples)
             resolution ==
                 NumpyDivide(
                     NanSum([i \in bins |->
                         FMul(Rat(num_examples_by_bin[i], 1),
                              Square(FSub(mean_observed_label_by_bin[i],
                                          climatology)))]),
                     num_examples)
         IN  Returned(
                 [brier_skill_score |->
                      OrNaN(NumpyDivide(FSub(resolution, reliability),
                                        uncertainty)),
                  brier_score |->
                      FSub(FAdd(uncertainty, reliability), resolution),
                  reliability |-> reliability,
                  resolution |-> resolution,
                  uncertainty |-> uncertainty])

-----------------------------------------------------------------------------
(* Cost functions of the permutation test *)

\* class_probability_matrix[:, -1], the probabilities of the event
EventProbabilities(class_probability_matrix) ==
    [i \in DOMAIN class_probability_matrix |->
        class_probability_matrix[i][Len(class_probability_matrix[i])]]

\* The ROC curve whose area negative_auc_function takes: one point for every
\* distinct forecast probability.
RocCurveOfCost(target_values, forecast_probabilities) ==
    get_points_in_roc_curve(
        forecast_probabilities, target_values,
        StringArg(THRESHOLD_ARG_FOR_UNIQUE_FORECASTS), ONE \div 10000)

\* minus the area under the ROC curve of the event probabilities.
\* sort_indices is the order in which the area sorts the points.
negative_auc_function(target_values, class_probability_matrix, sort_indices) ==
    LET roc == RocCurveOfCost(target_values,
                              EventProbabilities(class_probability_matrix))
        area == get_area_under_roc_curve(roc.value.x_by_threshold,
                                         roc.value.pod_by_threshold,
                                         sort_indices)
    IN  IF roc.raised \/ area.raised THEN Raised
        ELSE Returned(FNeg(area.value))

-----------------------------------------------------------------------------
(* Brier score, cross-entropy, reliability curve *)

\* A float within numpy.finfo(float).eps of the 1e-6 grid: <<m, e>> is
\* m * 1e-6 + e * eps.  The arrays of the caller are kept in this form.
OnGrid(x) == <<x, 0>>

MIN_FORECAST_PROB_FOR_XENTROPY == <<0, 1>>
MAX_FORECAST_PROB_FOR_XENTROPY == <<ONE, -1>>

\* the two arrays with the values the caller gave them
ArraysOfCaller(forecast_probabilities, observed_labels) ==
    [forecast_probabilities |->
         [i \in DOMAIN forecast_probabilities |->
             OnGrid(forecast_probabilities[i])],
     observed_labels |-> observed_labels]

\* the mean with the empty array guarded: 0 for an empty array
MeanOrZero(a, scale) ==
    IF a = <<>> THEN FZero ELSE Rat(IntSum(a), Len(a) * scale)

\* numpy.mean of an integer array divided by scale; NaN for an empty array
MeanOf(a, scale) ==
    IF a = <<>> THEN NaN ELSE Rat(IntSum(a), Len(a) * scale)

RECURSIVE FSumBetween(_, _, _)
\* the sum of a[first], ..., a[last], taken by halves
FSumBetween(a, first, last) ==
    IF first > last THEN FZero
    ELSE IF first = last THEN a[first]
    ELSE FAdd(FSumBetween(a, first, (first + last) \div 2),
              FSumBetween(a, (first + last) \div 2 + 1, last))

\* numpy.sum of a float array
FSum(a) == FSumBetween(a, 1, Len(a))

\* numpy.mean of a float array; NaN for an empty array
Mean(a) == IF a = <<>> THEN NaN ELSE NumpyDivide(FSum(a), Rat(Len(a), 1))

\* the mean of the differences, not squared
get_brier_score_of_differences(forecast_probabilities, observed_labels) ==
    IF ~check_forecast_probs_and_observed_labels(forecast_probabilities,
                                                 observed_labels)
    THEN Raised
    ELSE Returned(
             Mean([i \in DOMAIN forecast_probabilities |->
                      FSub(Rat(forecast_probabilities[i], ONE),
                           Rat(observed_labels[i], 1))]))

get_brier_score(forecast_probabilities, observed_labels) ==
    IF ~check_forecast_probs_and_observed_labels(forecast_probabilities,
                                                 observed_labels)
    THEN Raised
    ELSE Returned(
             Mean([i \in DOMAIN forecast_probabilities |->
                      Square(FSub(Rat(forecast_probabilities[i], ONE),
                                  Rat(observed_labels[i], 1)))]))

\* The two assignments write into the array of the caller:
\* forecast_probabilities of the result is what they leave in it.  The value
\* is minus the mean of log2 over log2_of, the probability that each example
\* gave to its observed class.
get_cross_entropy(forecast_probabilities, observed_labels) ==
    IF ~check_forecast_probs_and_observed_labels(forecast_probabilities,
                                                 observed_labels)
    THEN [raised |-> TRUE, value |-> <<>>,
          forecast_probabilities |->
              [i \in DOMAIN forecast_probabilities |->
                  OnGrid(forecast_probabilities[i])]]
    ELSE LET clipped ==
                 [i \in DOMAIN forecast_probabilities |->
                     IF forecast_probabilities[i] <= 0
                     THEN MIN_FORECAST_PROB_FOR_XENTROPY
                     ELSE IF forecast_probabilities[i] >= ONE
                     THEN MAX_FORECAST_PROB_FOR_XENTROPY
                     ELSE OnGrid(forecast_probabilities[i])]
         IN  [raised |-> FALSE,
              value |->
                  [k |-> "minus mean log2",
                   log2_of |->
                       [i \in DOMAIN clipped |->
                           IF observed_labels[i] = 1 THEN clipped[i]
                           ELSE <<ONE - clipped[i][1], -clipped[i][2]>>]],
              forecast_probabilities |-> clipped]

\* histograms.create_histogram with min_value = 0 and max_value = 1: the
\* index (from 0) of the bin of equal width that holds each value, 1 in the
\* last bin
split_forecast_probs_into_bins(forecast_probabilities, num_bins) ==
    [i \in DOMAIN forecast_probabilities |->
        IF forecast_probabilities[i] >= ONE THEN num_bins - 1
        ELSE (forecast_probabilities[i] * num_bins) \div ONE]

\* numpy.where(flags)[0], counted from 1
IndicesWhere(a, x) ==
    SelectSeq([i \in DOMAIN a |-> i], LAMBDA i : a[i] = x)

get_points_in_reliability_curve(forecast_probabilities, observed_labels, num_forecast_bins) ==
    IF ~check_forecast_probs_and_observed_labels(forecast_probabilities,
                                                 observed_labels)
    THEN Raised
    ELSE LET bin_index_by_example ==
                 split_forecast_probs_into_bins(forecast_probabilities,
                                                num_forecast_bins)
             these_example_indices(i) ==
                 IndicesWhere(bin_index_by_example, i - 1)
         IN  Returned(
                 [mean_forecast_prob_by_bin |->
                      [i \in 1..num_forecast_bins |->
                          MeanOf(Take(forecast_probabilities,
                                        these_example_indices(i)), ONE)],
                  mean_observed_label_by_bin |->
                      [i \in 1..num_forecast_bins |->
                          MeanOf(Take(observed_labels,
                                        these_example_indices(i)), 1)],
                  num_examples_by_bin |->
                      [i \in 1..num_forecast_bins |->
                          Len(these_example_indices(i))]])

-----------------------------------------------------------------------------
(* Bootstrapping: samples, confidence intervals, NaN-aware reductions *)

\* bootstrapping.draw_sample: the index vectors it may return for an array
\* of num_values values, len(values) indices (counted from 1) drawn with
\* replacement
SampleIndices(num_values) == [1..num_values -> 1..num_values]

\* the number of values of a below x, and the number up to x
NumBelow(a, x) == Cardinality({j \in DOMAIN a : a[j] # x /\ FLeq(a[j], x)})
NumUpTo(a, x) == Cardinality({j \in DOMAIN a : FLeq(a[j], x)})

\* numpy.sort of a float array without NaN: position k holds the value
\* that has fewer than k values below it and k values or more up to it
SortFloats(a) ==
    [k \in 1..Len(a) |->
        CHOOSE x \in {a[j] : j \in DOMAIN a} :
            NumBelow(a, x) < k /\ k <= NumUpTo(a, x)]

WithoutNaN(a) == SelectSeq(a, LAMBDA x : ~IsNaN(x))

\* the value at the (fractional) position, counted from 0, of an ascending
\* sequence: linear interpolation between the two neighbours
Interpolated(sorted, position) ==
    LET below == position.n \div position.d
    IN  IF position.n = below * position.d THEN sorted[below + 1]
        ELSE FAdd(sorted[below + 1],
                  FMul(FSub(sorted[below + 2], sorted[below + 1]),
                       FSub(position, Rat(below, 1))))

\* the percentile of an ascending sequence; NaN when it is empty
PercentileOfSorted(sorted, percentile) ==
    IF sorted = <<>> THEN NaN
    ELSE Interpolated(sorted,
                      FMul(NumpyDivide(percentile, Rat(100, 1)),
                           Rat(Len(sorted) - 1, 1)))

\* numpy.nanpercentile(a, percentile) with linear interpolation between the
\* two nearest order statistics; NaN when no value is left
NanPercentile(a, percentile) ==
    PercentileOfSorted(SortFloats(WithoutNaN(a)), percentile)

\* bootstrapping.get_confidence_interval: <<minimum, maximum>> of the
\* two-sided interval, the 50 (1 - c) and 50 (1 + c) percentiles
get_confidence_interval(stat_values, confidence_level) ==
    <<NanPercentile(stat_values,
                    FMul(Rat(50, 1), FSub(FOne, confidence_level))),
      NanPercentile(stat_values,
                    FMul(Rat(50, 1), FAdd(FOne, confidence_level)))>>

\* the sum, not the mean, of the values that are not NaN
NanTotal(a) == FSum(WithoutNaN(a))

\* numpy.nanmean; NaN when no value is left
NanMean(a) == Mean(WithoutNaN(a))

\* the last value of a sequence; NaN when it is empty
LastOrNaN(sorted) == IF sorted = <<>> THEN NaN ELSE sorted[Len(sorted)]

\* numpy.nanmax; NaN when no value is left
NanMax(a) == LastOrNaN(SortFloats(WithoutNaN(a)))

\* matrix[0, :] whatever the row asked for
FirstRow(columns, i) == [j \in DOMAIN columns |-> columns[j][1]]

\* matrix[i, :] of a matrix kept as the sequence of its columns
Row(columns, i) == [j \in DOMAIN columns |-> columns[j][i]]

\* the matrix (sequence of columns) or the values that the iterations have
\* written under the key
ValuesAcross(iterations, key) ==
    [j \in DOMAIN iterations |-> iterations[j][key]]

\* bootstrapping.get_confidence_interval of every row of the matrix
IntervalsOfRows(columns, num_rows, confidence_level) ==
    [i \in 1..num_rows |->
        get_confidence_interval(Row(columns, i), confidence_level)]

\* numpy.nanmean(matrix, axis=1)
NanMeanOfRows(columns, num_rows) ==
    [i \in 1..num_rows |-> NanMean(Row(columns, i))]

\* the first and the second value of every pair
Firsts(pairs) == [i \in DOMAIN pairs |-> pairs[i][1]]
Seconds(pairs) == [i \in DOMAIN pairs |-> pairs[i][2]]

\* error_checking.assert_is_integer and assert_is_greater(., 1)
IsIntegerGreaterThanOne(arg) == arg.kind = "int" /\ arg.num > 1

\* numpy.full((num_rows, arg), numpy.nan) takes a whole number that is
\* not negative
IsMatrixDimension(arg) == arg.kind = "int" /\ arg.num >= 0

\* some iteration has raised an error
SomeRaised(iterations) == \E j \in DOMAIN iterations : iterations[j].raised

-----------------------------------------------------------------------------
(* bootstrap_roc_curve *)

\* the contingency tables of one sample at the thresholds of the sample
\* itself (its unique forecasts, padded), the last one repeated
SampledTablesAtOwnThresholds(forecast_probabilities, observed_labels, binarization_thresholds, these_sample_indices) ==
    LET own == get_binarization_thresholds(
                   StringArg(THRESHOLD_ARG_FOR_UNIQUE_FORECASTS),
                   Take(forecast_probabilities, these_sample_indices),
                   ONE \div 10000).value
    IN  [i \in DOMAIN binarization_thresholds |->
            TableAtThreshold(Take(forecast_probabilities, these_sample_indices),
                             Take(observed_labels, these_sample_indices),
                             IF i <= Len(own) THEN own[i] ELSE own[Len(own)])]

\* the contingency tables of the sampled forecasts and the labels as given
SampledTablesOfGivenLabels(forecast_probabilities, observed_labels, binarization_thresholds, these_sample_indices) ==
    [i \in DOMAIN binarization_thresholds |->
        TableAtThreshold(Take(forecast_probabilities, these_sample_indices),
                         observed_labels, binarization_thresholds[i])]

\* the contingency tables of one sample, one for every threshold
SampledTables(forecast_probabilities, observed_labels, binarization_thresholds, these_sample_indices) ==
    [i \in DOMAIN binarization_thresholds |->
        TableAtThreshold(Take(forecast_probabilities, these_sample_indices),
                         Take(observed_labels, these_sample_indices),
                         binarization_thresholds[i])]

\* some table could not be made
SomeTableRaised(tables) == \E i \in DOMAIN tables : tables[i].raised

ValuesOfTables(tables) == [i \in DOMAIN tables |-> tables[i].value]

\* what one iteration of bootstrap_roc_curve has computed
RocIterationRecord(sampled_forecasts, sampled_labels, tables, pofd, pod, area) ==
    IF area.raised
    THEN [raised |-> TRUE]
    ELSE [raised |-> FALSE,
          forecast_probabilities |-> sampled_forecasts,
          observed_labels |-> sampled_labels,
          contingency_tables |-> ValuesOfTables(tables),
          pofd_by_threshold |-> pofd,
          pod_by_threshold |-> pod,
          area_under_curve |-> area.value]

\* the two scores of every table and the area under their curve
RocScoresOfTables(sampled_forecasts, sampled_labels, tables, pofd, pod, sort_indices) ==
    RocIterationRecord(sampled_forecasts, sampled_labels, tables, pofd, pod,
                       get_area_under_roc_curve(pofd, pod, sort_indices))

RocIterationOfTables(sampled_forecasts, sampled_labels, tables, sort_indices) ==
    IF SomeTableRaised(tables)
    THEN [raised |-> TRUE]
    ELSE RocScoresOfTables(
             sampled_forecasts, sampled_labels, tables,
             [i \in DOMAIN tables |-> get_pofd(tables[i].value)],
             [i \in DOMAIN tables |-> get_pod(tables[i].value)],
             sort_indices)

\* One iteration of the loop over j: the sample, the contingency table and
\* the two scores of every threshold, and the area under the curve.
\* sort_indices is what numpy.argsort returned inside
\* get_area_under_roc_curve.
RocIteration(forecast_probabilities, observed_labels, binarization_thresholds, these_sample_indices, sort_indices) ==
    RocIterationOfTables(
        Take(forecast_probabilities, these_sample_indices),
        Take(observed_labels, these_sample_indices),
        SampledTables(forecast_probabilities, observed_labels,
                      binarization_thresholds, these_sample_indices),
        sort_indices)

\* the arrays of the caller when the last sample is written back into them
ArraysResampledInPlace(forecast_probabilities, observed_labels, sample_indices) ==
    IF sample_indices = <<>>
    THEN ArraysOfCaller(forecast_probabilities, observed_labels)
    ELSE ArraysOfCaller(
             Take(forecast_probabilities,
                  sample_indices[Len(sample_indices)]),
             Take(observed_labels, sample_indices[Len(sample_indices)]))

\* forecast_probabilities[these_sample_indices] and
\* observed_labels[these_sample_indices] are new arrays: the arrays of the
\* caller are as they were
ArraysAfterBootstrap(forecast_probabilities, observed_labels, sample_indices) ==
    ArraysOfCaller(forecast_probabilities, observed_labels)

\* The three dictionaries from the intervals and means over the iterations.
\* The interval of POFD is assigned to (top, bottom), those of POD and of
\* the area to (bottom, top).
RocDictionaries(pofd_intervals, pod_intervals, auc_interval, mean, binarization_thresholds, iterations) ==
    Returned(
        [bottom |-> [pofd_by_threshold |-> Seconds(pofd_intervals),
                     pod_by_threshold |-> Firsts(pod_intervals),
                     area_under_curve |-> auc_interval[1]],
         mean |-> mean,
         top |-> [pofd_by_threshold |-> Firsts(pofd_intervals),
                  pod_by_threshold |-> Seconds(pod_intervals),
                  area_under_curve |-> auc_interval[2]],
         binarization_thresholds |-> binarization_thresholds,
         iterations |-> iterations])

RocEnvelope(iterations, binarization_thresholds, confidence_level) ==
    IF SomeRaised(iterations) THEN Raised
    ELSE RocDictionaries(
             IntervalsOfRows(ValuesAcross(iterations, "pofd_by_threshold"),
                             Len(binarization_thresholds), confidence_level),
             IntervalsOfRows(ValuesAcross(iterations, "pod_by_threshold"),
                             Len(binarization_thresholds), confidence_level),
             get_confidence_interval(
                 ValuesAcross(iterations, "area_under_curve"),
                 confidence_level),
             [pofd_by_threshold |->
                  NanMeanOfRows(ValuesAcross(iterations, "pofd_by_threshold"),
                                Len(binarization_thresholds)),
              pod_by_threshold |->
                  NanMeanOfRows(ValuesAcross(iterations, "pod_by_threshold"),
                                Len(binarization_thresholds)),
              area_under_curve |->
                  NanMean(ValuesAcross(iterations, "area_under_curve"))],
             binarization_thresholds, iterations)

\* bootstrap_roc_curve once the arrays are checked and the thresholds made
\* (or refused)
RocCurveAtThresholds(forecast_probabilities, observed_labels, binarization_thresholds, num_bootstrap_iters, confidence_level, sample_indices, sort_indices) ==
    IF binarization_thresholds.raised THEN Raised
    ELSE IF ~IsIntegerGreaterThanOne(num_bootstrap_iters) THEN Raised
    ELSE RocEnvelope(
             [j \in 1..num_bootstrap_iters.num |->
                 RocIteration(forecast_probabilities, observed_labels,
                              binarization_thresholds.value,
                              sample_indices[j], sort_indices[j])],
             binarization_thresholds.value, confidence_level)

\* sample_indices[j] is what bootstrapping.draw_sample returned in iteration
\* j, sort_indices[j] what numpy.argsort returned.  The value returned holds
\* the three dictionaries, and the thresholds and the iterations behind
\* them.
bootstrap_roc_curve(forecast_probabilities, observed_labels, threshold_arg, unique_forecast_precision, num_bootstrap_iters, confidence_level, sample_indices, sort_indices) ==
    IF ~check_forecast_probs_and_observed_labels(forecast_probabilities,
                                                 observed_labels)
    THEN Raised
    ELSE RocCurveAtThresholds(
             forecast_probabilities, observed_labels,
             get_binarization_thresholds(threshold_arg,
                                         forecast_probabilities,
                                         unique_forecast_precision),
             num_bootstrap_iters, confidence_level, sample_indices,
             sort_indices)

-----------------------------------------------------------------------------
(* bootstrap_performance_diagram *)

\* what one iteration of bootstrap_performance_diagram has computed
PerformanceIterationRecord(sampled_forecasts, sampled_labels, tables, pod, success_ratio, these_csi_values) ==
    [raised |-> FALSE,
     forecast_probabilities |-> sampled_forecasts,
     observed_labels |-> sampled_labels,
     contingency_tables |-> ValuesOfTables(tables),
     pod_by_threshold |-> pod,
     success_ratio_by_threshold |-> success_ratio,
     csi_values |-> these_csi_values,
     max_csi_over_thresholds |-> NanMax(these_csi_values)]

PerformanceScoresOfTables(sampled_forecasts, sampled_labels, tables, pod, success_ratio) ==
    PerformanceIterationRecord(
        sampled_forecasts, sampled_labels, tables, pod, success_ratio,
        [i \in DOMAIN tables |->
            csi_from_sr_and_pod(success_ratio[i], pod[i])])

PerformanceIterationOfTables(sampled_forecasts, sampled_labels, tables) ==
    IF SomeTableRaised(tables)
    THEN [raised |-> TRUE]
    ELSE PerformanceScoresOfTables(
             sampled_forecasts, sampled_labels, tables,
             [i \in DOMAIN tables |-> get_pod(tables[i].value)],
             [i \in DOMAIN tables |-> get_success_ratio(tables[i].value)])

\* One iteration of the loop over j: the sample, the contingency table and
\* the three scores of every threshold, and the largest CSI.
PerformanceIteration(forecast_probabilities, observed_labels, binarization_thresholds, these_sample_indices) ==
    PerformanceIterationOfTables(
        Take(forecast_probabilities, these_sample_indices),
        Take(observed_labels, these_sample_indices),
        SampledTables(forecast_probabilities, observed_labels,
                      binarization_thresholds, these_sample_indices))

\* The three dictionaries; every interval is assigned to (bottom, top).
PerformanceDictionaries(pod_intervals, success_ratio_intervals, max_csi_interval, mean, binarization_thresholds, iterations) ==
    Returned(
        [bottom |-> [pod_by_threshold |-> Firsts(pod_intervals),
                     success_ratio_by_threshold |->
                         Firsts(success_ratio_intervals),
                     max_csi_over_thresholds |-> max_csi_interval[1]],
         mean |-> mean,
         top |-> [pod_by_threshold |-> Seconds(pod_intervals),
                  success_ratio_by_threshold |->
                      Seconds(success_ratio_intervals),
                  max_csi_over_thresholds |-> max_csi_interval[2]],
         binarization_thresholds |-> binarization_thresholds,
         iterations |-> iterations])

PerformanceEnvelope(iterations, binarization_thresholds, confidence_level) ==
    IF SomeRaised(iterations) THEN Raised
    ELSE PerformanceDictionaries(
             IntervalsOfRows(ValuesAcross(iterations, "pod_by_threshold"),
                             Len(binarization_thresholds), confidence_level),
             IntervalsOfRows(
                 ValuesAcross(iterations, "success_ratio_by_threshold"),
                 Len(binarization_thresholds), confidence_level),
             get_confidence_interval(
                 ValuesAcross(iterations, "max_csi_over_thresholds"),
                 confidence_level),
             [pod_by_threshold |->
                  NanMeanOfRows(ValuesAcross(iterations, "pod_by_threshold"),
                                Len(binarization_thresholds)),
              success_ratio_by_threshold |->
                  NanMeanOfRows(
                      ValuesAcross(iterations, "success_ratio_by_threshold"),
                      Len(binarization_thresholds)),
              max_csi_over_thresholds |->
                  NanMean(ValuesAcross(iterations,
                                       "max_csi_over_thresholds"))],
             binarization_thresholds, iterations)

\* bootstrap_performance_diagram once the arrays are checked and the
\* thresholds made (or refused)
PerformanceDiagramAtThresholds(forecast_probabilities, observed_labels, binarization_thresholds, num_bootstrap_iters, confidence_level, sample_indices) ==
    IF binarization_thresholds.raised THEN Raised
    ELSE IF ~IsIntegerGreaterThanOne(num_bootstrap_iters) THEN Raised
    ELSE PerformanceEnvelope(
             [j \in 1..num_bootstrap_iters.num |->
                 PerformanceIteration(forecast_probabilities, observed_labels,
                                      binarization_thresholds.value,
                                      sample_indices[j])],
             binarization_thresholds.value, confidence_level)

bootstrap_performance_diagram(forecast_probabilities, observed_labels, threshold_arg, unique_forecast_precision, num_bootstrap_iters, confidence_level, sample_indices) ==
    IF ~check_forecast_probs_and_observed_labels(forecast_probabilities,
                                                 observed_labels)
    THEN Raised
    ELSE PerformanceDiagramAtThresholds(
             forecast_probabilities, observed_labels,
             get_binarization_thresholds(threshold_arg,
                                         forecast_probabilities,
                                         unique_forecast_precision),
             num_bootstrap_iters, confidence_level, sample_indices)

-----------------------------------------------------------------------------
(* bootstrap_reliability_curve *)

\* what one iteration of bootstrap_reliability_curve has computed
ReliabilityIterationRecord(sampled_forecasts, sampled_labels, mean_forecast_prob, mean_observed_label, these_num_examples_by_bin, this_bss_dictionary) ==
    IF this_bss_dictionary.raised
    THEN [raised |-> TRUE]
    ELSE [raised |-> FALSE,
          forecast_probabilities |-> sampled_forecasts,
          observed_labels |-> sampled_labels,
          num_examples_by_bin |-> these_num_examples_by_bin,
          mean_forecast_prob_by_bin |-> mean_forecast_prob,
          mean_observed_label_by_bin |-> mean_observed_label,
          brier_skill_score |-> this_bss_dictionary.value.brier_skill_score,
          brier_score |-> this_bss_dictionary.value.brier_score,
          reliability |-> this_bss_dictionary.value.reliability,
          resolution |-> this_bss_dictionary.value.resolution]

\* the Brier skill score of the bins of the sample, with the mean label of
\* the sample as climatology
ReliabilityScoresOfBins(sampled_forecasts, sampled_labels, mean_forecast_prob, mean_observed_label, these_num_examples_by_bin) ==
    ReliabilityIterationRecord(
        sampled_forecasts, sampled_labels, mean_forecast_prob,
        mean_observed_label, these_num_examples_by_bin,
        get_brier_skill_score(mean_forecast_prob, mean_observed_label,
                              these_num_examples_by_bin,
                              MeanOf(sampled_labels, 1)))

\* these_example_indices of every bin: the sampled indices whose example is
\* in the bin
SampledIndicesByBin(bin_index_by_example, num_forecast_bins, these_sample_indices) ==
    [i \in 1..num_forecast_bins |->
        Take(these_sample_indices,
             IndicesWhere(Take(bin_index_by_example, these_sample_indices),
                          i - 1))]

ReliabilityIterationOfBins(forecast_probabilities, observed_labels, these_sample_indices, example_indices_by_bin) ==
    ReliabilityScoresOfBins(
        Take(forecast_probabilities, these_sample_indices),
        Take(observed_labels, these_sample_indices),
        [i \in DOMAIN example_indices_by_bin |->
            MeanOf(Take(forecast_probabilities, example_indices_by_bin[i]),
                   ONE)],
        [i \in DOMAIN example_indices_by_bin |->
            MeanOf(Take(observed_labels, example_indices_by_bin[i]), 1)],
        [i \in DOMAIN example_indices_by_bin |->
            Len(example_indices_by_bin[i])])

\* One iteration of the loop over j: the sample, the examples of every bin
\* (bins are those of the whole dataset), the two means of every bin and the
\* Brier skill score with the climatology of the sample.
ReliabilityIteration(forecast_probabilities, observed_labels, bin_index_by_example, num_forecast_bins, these_sample_indices) ==
    ReliabilityIterationOfBins(
        forecast_probabilities, observed_labels, these_sample_indices,
        SampledIndicesByBin(bin_index_by_example, num_forecast_bins,
                            these_sample_indices))

\* the four scalars of the iterations, each through the operator given by
\* name: the lower end of the interval, the mean, the upper end
ScalarsOfReliability(iterations, confidence_level, part) ==
    LET value(key) ==
            IF part = "mean" THEN NanMean(ValuesAcross(iterations, key))
            ELSE get_confidence_interval(
                     ValuesAcross(iterations, key),
                     confidence_level)[IF part = "bottom" THEN 1 ELSE 2]
    IN  [key \in {"brier_skill_score", "brier_score", "reliability",
                  "resolution"} |-> value(key)]

\* The three dictionaries.  The interval of the mean forecast probability
\* is assigned to (top, bottom), every other one to (bottom, top).
ReliabilityDictionaries(mean_forecast_prob_intervals, mean_observed_label_intervals, bottom_scalars, mean_scalars, top_scalars, mean_by_bin, num_examples_by_bin, iterations) ==
    Returned(
        [bottom |->
             [mean_forecast_prob_by_bin |->
                  Seconds(mean_forecast_prob_intervals),
              mean_observed_label_by_bin |->
                  Firsts(mean_observed_label_intervals),
              brier_skill_score |-> bottom_scalars["brier_skill_score"],
              brier_score |-> bottom_scalars["brier_score"],
              reliability |-> bottom_scalars["reliability"],
              resolution |-> bottom_scalars["resolution"]],
         mean |->
             [mean_forecast_prob_by_bin |->
                  mean_by_bin.mean_forecast_prob_by_bin,
              mean_observed_label_by_bin |->
                  mean_by_bin.mean_observed_label_by_bin,
              brier_skill_score |-> mean_scalars["brier_skill_score"],
              brier_score |-> mean_scalars["brier_score"],
              reliability |-> mean_scalars["reliability"],
              resolution |-> mean_scalars["resolution"]],
         top |->
             [mean_forecast_prob_by_bin |->
                  Firsts(mean_forecast_prob_intervals),
              mean_observed_label_by_bin |->
                  Seconds(mean_observed_label_intervals),
              brier_skill_score |-> top_scalars["brier_skill_score"],
              brier_score |-> top_scalars["brier_score"],
              reliability |-> top_scalars["reliability"],
              resolution |-> top_scalars["resolution"]],
         num_examples_by_bin |-> num_examples_by_bin,
         iterations |-> iterations])

ReliabilityEnvelope(iterations, num_forecast_bins, confidence_level, num_examples_by_bin) ==
    IF SomeRaised(iterations) THEN Raised
    ELSE ReliabilityDictionaries(
             IntervalsOfRows(
                 ValuesAcross(iterations, "mean_forecast_prob_by_bin"),
                 num_forecast_bins, confidence_level),
             IntervalsOfRows(
                 ValuesAcross(iterations, "mean_observed_label_by_bin"),
                 num_forecast_bins, confidence_level),
             ScalarsOfReliability(iterations, confidence_level, "bottom"),
             ScalarsOfReliability(iterations, confidence_level, "mean"),
             ScalarsOfReliability(iterations, confidence_level, "top"),
             [mean_forecast_prob_by_bin |->
                  NanMeanOfRows(
                      ValuesAcross(iterations, "mean_forecast_prob_by_bin"),
                      num_forecast_bins),
              mean_observed_label_by_bin |->
                  NanMeanOfRows(
                      ValuesAcross(iterations, "mean_observed_label_by_bin"),
                      num_forecast_bins)],
             num_examples_by_bin, iterations)

\* bootstrap_reliability_curve once the arrays are checked and the examples
\* put into bins
ReliabilityCurveOfBins(forecast_probabilities, observed_labels, bin_index_by_example, num_forecast_bins, num_bootstrap_iters, confidence_level, sample_indices) ==
    IF ~IsMatrixDimension(num_bootstrap_iters) THEN Raised
    ELSE ReliabilityEnvelope(
             [j \in 1..num_bootstrap_iters.num |->
                 ReliabilityIteration(forecast_probabilities, observed_labels,
                                      bin_index_by_example, num_forecast_bins,
                                      sample_indices[j])],
             num_forecast_bins, confidence_level,
             [i \in 1..num_forecast_bins |->
                 Len(IndicesWhere(bin_index_by_example, i - 1))])

\* num_bootstrap_iters is not checked: it is the second dimension of the
\* matrices made by numpy.full, and the number of turns of the loop
bootstrap_reliability_curve(forecast_probabilities, observed_labels, num_forecast_bins, num_bootstrap_iters, confidence_level, sample_indices) ==
    IF ~check_forecast_probs_and_observed_labels(forecast_probabilities,
                                                 observed_labels)
    THEN Raised
    ELSE ReliabilityCurveOfBins(
             forecast_probabilities, observed_labels,
             split_forecast_probs_into_bins(forecast_probabilities,
                                            num_forecast_bins),
             num_forecast_bins, num_bootstrap_iters, confidence_level,
             sample_indices)

-----------------------------------------------------------------------------
(* Bootstrapping of the cost of the permutation test *)

\* array[these_indices] of targets and array[these_indices, ...] of rows
Resampled(a, these_indices) == Take(a, these_indices)

\* the costs as an array: the call raises when a cost function raises
CostArray(costs) ==
    IF \E k \in DOMAIN costs : costs[k].raised THEN Raised
    ELSE Returned([k \in DOMAIN costs |-> costs[k].value])

\* the cost of the examples as given, whatever num_replicates
bootstrap_cost_once(target_values, class_probability_matrix, num_replicates, sample_indices, sort_indices) ==
    CostArray(<<negative_auc_function(target_values,
                                      class_probability_matrix,
                                      sort_indices[1])>>)

\* permutation_utils.bootstrap_cost with cost_function =
\* negative_auc_function: one cost for each replicate, of the examples as
\* given when there is one replicate and of a sample drawn with replacement
\* otherwise.  sample_indices[k] is the sample of replicate k and
\* sort_indices[k] the order in which its area sorts the ROC points.
bootstrap_cost(target_values, class_probability_matrix, num_replicates, sample_indices, sort_indices) ==
    IF num_replicates = 1
    THEN CostArray(<<negative_auc_function(target_values,
                                           class_probability_matrix,
                                           sort_indices[1])>>)
    ELSE CostArray(
             [k \in 1..num_replicates |->
                 negative_auc_function(
                     Resampled(target_values, sample_indices[k]),
                     Resampled(class_probability_matrix, sample_indices[k]),
                     sort_indices[k])])

-----------------------------------------------------------------------------
(* gg_utils/time_conversion.py: times and SPC dates *)

\* A time is an integer number of seconds since 0000 UTC 1 Jan 1970 and
\* has no largest value.  It is kept as the whole days and the seconds of
\* the day, [days, seconds] standing for days * 86400 + seconds with
\* 0 <= seconds < 86400.  A time string in SPC_DATE_FORMAT ("%Y%m%d") is
\* the sequence of its characters, each a digit.

HOURS_TO_SECONDS == 3600
DAYS_TO_SECONDS == 86400
SECONDS_INTO_SPC_DATE_DEFAULT == 18 * HOURS_TO_SECONDS

MIN_SECONDS_INTO_SPC_DATE == 12 * HOURS_TO_SECONDS
MAX_SECONDS_INTO_SPC_DATE == (36 * HOURS_TO_SECONDS) - 1

\* the integer days * DAYS_TO_SECONDS + seconds
UnixTime(days, seconds) ==
    [days |-> days + seconds \div DAYS_TO_SECONDS,
     seconds |-> seconds % DAYS_TO_SECONDS]

\* integer + and <=
PlusSeconds(unix_time_sec, seconds) ==
    UnixTime(unix_time_sec.days, unix_time_sec.seconds + seconds)

TimeLeq(a, b) ==
    a.days < b.days \/ (a.days = b.days /\ a.seconds <= b.seconds)

\* time.gmtime: year, month and day of the month of a time.  The days are
\* counted from 1 March of the year 0 in eras of 400 years, and the months
\* from March.
DateOfMonthFromMarch(year, doy, mp) ==
    [year |-> year + (IF mp < 10 THEN 0 ELSE 1),
     month |-> IF mp < 10 THEN mp + 3 ELSE mp - 9,
     day |-> doy - (153 * mp + 2) \div 5 + 1]

DateOfDayOfYear(year, doy) ==
    DateOfMonthFromMarch(year, doy, (5 * doy + 2) \div 153)

DateOfYearOfEra(era, doe, yoe) ==
    DateOfDayOfYear(yoe + era * 400,
                    doe - (365 * yoe + yoe \div 4 - yoe \div 100))

DateOfDayOfEra(era, doe) ==
    DateOfYearOfEra(
        era, doe,
        (doe - doe \div 1460 + doe \div 36524 - doe \div 146096) \div 365)

DateOfDay(z) == DateOfDayOfEra(z \div 146097, z % 146097)

GmtimeDate(unix_time_sec) == DateOfDay(unix_time_sec.days + 719468)

RECURSIVE DecimalDigits(_)
\* the digits of a number that is not negative, without zeros in front
DecimalDigits(number) ==
    IF number < 10 THEN <<number>>
    ELSE Append(DecimalDigits(number \div 10), number % 10)

\* the two digits of a number below 100
TwoDigits(number) == <<number \div 10, number % 10>>

\* time.strftime(SPC_DATE_FORMAT, ...) with the C library of Linux: %Y is
\* the year as a decimal number, with as many digits as it has; %m and %d
\* have two digits
StrftimeDate(date) ==
    DecimalDigits(date.year) \o TwoDigits(date.month) \o TwoDigits(date.day)

unix_sec_to_string(unix_time_sec) == StrftimeDate(GmtimeDate(unix_time_sec))

IsLeapYear(year) ==
    year % 4 = 0 /\ (year % 100 # 0 \/ year % 400 = 0)

DaysInMonth(year, month) ==
    IF month = 2 THEN (IF IsLeapYear(year) THEN 29 ELSE 28)
    ELSE IF month \in {4, 6, 9, 11} THEN 30 ELSE 31

RECURSIVE NumberOf(_, _, _)
\* the number that the digits from first to last spell
NumberOf(string, first, last) ==
    IF last < first THEN 0
    ELSE 10 * NumberOf(string, first, last - 1) + string[last]

\* the digit at a position, or 10 past the end
DigitAt(string, i) == IF i \in DOMAIN string THEN string[i] ELSE 10

\* _strptime's pattern of %m, (1[0-2]|0[1-9]|[1-9]): the numbers of digits
\* with which it matches at a position, in the order it tries them
MonthLengths(string, i) ==
    (IF \/ DigitAt(string, i) = 1 /\ DigitAt(string, i + 1) \in 0..2
        \/ DigitAt(string, i) = 0 /\ DigitAt(string, i + 1) \in 1..9
     THEN <<2>> ELSE <<>>)
    \o (IF DigitAt(string, i) \in 1..9 THEN <<1>> ELSE <<>>)

\* _strptime's pattern of %d, (3[01]|[12]\d|0[1-9]|[1-9]| [1-9])
DayLengths(string, i) ==
    (IF \/ DigitAt(string, i) = 3 /\ DigitAt(string, i + 1) \in 0..1
        \/ DigitAt(string, i) \in 1..2 /\ DigitAt(string, i + 1) \in 0..9
        \/ DigitAt(string, i) = 0 /\ DigitAt(string, i + 1) \in 1..9
     THEN <<2>> ELSE <<>>)
    \o (IF DigitAt(string, i) \in 1..9 THEN <<1>> ELSE <<>>)

\* the lengths of month and day with a length of the month, or <<>>
MatchWithMonth(string, month_length, day_lengths) ==
    IF day_lengths = <<>> THEN <<>> ELSE <<month_length, day_lengths[1]>>

\* the first of the matches that is one
FirstOf(matches) ==
    IF \A k \in DOMAIN matches : matches[k] = <<>> THEN <<>>
    ELSE matches[CHOOSE k \in DOMAIN matches :
                     /\ matches[k] # <<>>
                     /\ \A j \in 1..(k - 1) : matches[j] = <<>>]

MatchOfMonths(string, months) ==
    FirstOf([k \in DOMAIN months |->
                MatchWithMonth(string, months[k],
                               DayLengths(string, 5 + months[k]))])

\* The first match of the pattern of "%Y%m%d", four digits of year, then
\* month, then day: the numbers of digits of month and day, or <<>>.
FirstMatch(string) ==
    IF \E i \in 1..4 : DigitAt(string, i) = 10 THEN <<>>
    ELSE MatchOfMonths(string, MonthLengths(string, 5))

\* the date of three numbers, or ValueError
DateOf(year, month, day) ==
    IF year >= 1 /\ day <= DaysInMonth(year, month)
    THEN Returned([year |-> year, month |-> month, day |-> day])
    ELSE Raised

DateOfMatch(time_string, match) ==
    IF match = <<>> THEN Raised
    ELSE IF 4 + match[1] + match[2] # Len(time_string) THEN Raised
    ELSE DateOf(NumberOf(time_string, 1, 4),
                NumberOf(time_string, 5, 4 + match[1]),
                NumberOf(time_string, 5 + match[1],
                         4 + match[1] + match[2]))

\* time.strptime(time_string, SPC_DATE_FORMAT): ValueError when the string
\* does not match the pattern, when characters remain after the match and
\* when the numbers are no date
StrptimeDate(time_string) == DateOfMatch(time_string, FirstMatch(time_string))

\* the days of the years from 1970 to the year before this one
DaysBeforeYear(year) ==
    LET leap_days(y) == (y - 1) \div 4 - (y - 1) \div 100 + (y - 1) \div 400
    IN  365 * (year - 1970) + leap_days(year) - leap_days(1970)

RECURSIVE DaysBeforeMonth(_, _)
\* the days of the months of the year before this one
DaysBeforeMonth(year, month) ==
    IF month = 1 THEN 0
    ELSE DaysBeforeMonth(year, month - 1) + DaysInMonth(year, month - 1)

\* calendar.timegm of 0000 UTC of a date
Timegm(date) ==
    UnixTime(DaysBeforeYear(date.year)
                 + DaysBeforeMonth(date.year, date.month) + date.day - 1,
             0)

MidnightOf(parsed) ==
    IF parsed.raised THEN Raised ELSE Returned(Timegm(parsed.value))

string_to_unix_sec(time_string) == MidnightOf(StrptimeDate(time_string))

\* number_rounding.floor_to_nearest(x, DAYS_TO_SECONDS)
FloorToNearestDay(x) == UnixTime(x.days, 0)

time_to_spc_date_unix_sec(unix_time_sec) ==
    PlusSeconds(
        FloorToNearestDay(PlusSeconds(unix_time_sec,
                                      -(DAYS_TO_SECONDS \div 2))),
        SECONDS_INTO_SPC_DATE_DEFAULT)

\* the date string of the time itself, not of the time twelve hours before
time_to_spc_date_string_of_calendar_day(unix_time_sec) ==
    unix_sec_to_string(unix_time_sec)

time_to_spc_date_string(unix_time_sec) ==
    unix_sec_to_string(PlusSeconds(unix_time_sec, -(DAYS_TO_SECONDS \div 2)))

\* seconds added to 0000 UTC of a date, if the string spells one
SecondsAfter(midnight, seconds) ==
    IF midnight.raised THEN Raised
    ELSE Returned(PlusSeconds(midnight.value, seconds))

SecondsIntoDate(seconds, spc_date_string) ==
    SecondsAfter(string_to_unix_sec(spc_date_string), seconds)

spc_date_string_to_unix_sec(spc_date_string) ==
    SecondsIntoDate(SECONDS_INTO_SPC_DATE_DEFAULT, spc_date_string)

get_start_of_spc_date(spc_date_string) ==
    SecondsIntoDate(MIN_SECONDS_INTO_SPC_DATE, spc_date_string)

get_end_of_spc_date(spc_date_string) ==
    SecondsIntoDate(MAX_SECONDS_INTO_SPC_DATE, spc_date_string)

\* numpy.logical_and of the two comparisons
IsBetween(unix_time_sec, min_time_unix_sec, max_time_unix_sec) ==
    IF min_time_unix_sec.raised THEN Raised
    ELSE Returned(/\ TimeLeq(min_time_unix_sec.value, unix_time_sec)
                  /\ TimeLeq(unix_time_sec, max_time_unix_sec.value))

is_time_in_spc_date(unix_time_sec, spc_date_string) ==
    IsBetween(unix_time_sec, get_start_of_spc_date(spc_date_string),
              get_end_of_spc_date(spc_date_string))

-----------------------------------------------------------------------------
(* Reference curves of the reliability diagram *)

\* the line of the climatology: the same event frequency at every forecast
get_no_skill_reliability_curve_at_climatology(mean_observed_label) ==
    IF ~(FLeq(FZero, mean_observed_label) /\ FLeq(mean_observed_label, FOne))
    THEN Raised
    ELSE Returned([x_values |-> <<FZero, FOne>>,
                   y_values |-> <<mean_observed_label, mean_observed_label>>])

get_no_skill_reliability_curve(mean_observed_label) ==
    IF ~(FLeq(FZero, mean_observed_label) /\ FLeq(mean_observed_label, FOne))
    THEN Raised
    ELSE Returned(
             [x_values |-> <<FZero, FOne>>,
              y_values |->
                  <<NumpyDivide(mean_observed_label, Rat(2, 1)),
                    NumpyDivide(FAdd(FOne, mean_observed_label),
                                Rat(2, 1))>>])

-----------------------------------------------------------------------------
(* The caller *)


Init ==
    /\ pc = "idle"
    /\ call = NoCall
    /\ result = NoResult
    /\ arrays = NoArrays
    /\ first_run = NoResult

Return ==
    /\ pc \in {"done", "done again"}
    /\ pc' = "idle"
    /\ call' = NoCall
    /\ result' = NoResult
    /\ arrays' = NoArrays
    /\ first_run' = NoResult

Tables ==
    {ContingencyTable(tp, fp, fn, tn) :
        tp \in 0..MaxCount, fp \in 0..MaxCount,
        fn \in 0..MaxCount, tn \in 0..MaxCount}

\* one of the thirteen scores of a contingency table
CallScore ==
    /\ pc = "idle"
    /\ \E fn \in ScoreFunctions, t \in Tables :
          /\ call' = [fn |-> fn, contingency_table_as_dict |-> t]
          /\ result' = Outcome(ApplyScore(fn, t))
    /\ pc' = "done"
    /\ UNCHANGED <<arrays, first_run>>

\* bootstrap_performance_diagram, one threshold of one iteration: POD and
\* success ratio of the table, then CSI from the two
CallCsiFromSrAndPod ==
    /\ pc = "idle"
    /\ \E t \in Tables :
          LET pod == get_pod(t)
              success_ratio == get_success_ratio(t)
          IN  /\ call' = [fn |-> "csi_from_sr_and_pod",
                          contingency_table_as_dict |-> t,
                          success_ratio_array |-> <<success_ratio>>,
                          pod_array |-> <<pod>>]
              /\ result' = Returned(<<csi_from_sr_and_pod(success_ratio, pod)>>)
    /\ pc' = "done"
    /\ UNCHANGED <<arrays, first_run>>

NextScores == CallScore \/ CallCsiFromSrAndPod \/ Return

SpecScores == Init /\ [][NextScores]_vars

-----------------------------------------------------------------------------
(* Calls on labels, probabilities and thresholds *)

\* 0 and 1, and a label that is neither
LabelValues == {0, 1, 2}

\* 0, 0.49996, 0.5 and 1
ProbValues == {0, ONE \div 2 - 40, ONE \div 2, ONE}

\* -1e-6 and 1 + 1e-6
OutOfRangeProbs == {-1, ONE + 1}

\* -1e-6, 0, 0.5, 1, 1 + 1e-6 and 1 + 2e-6
ThresholdValues == {-1, 0, ONE \div 2, ONE, ONE + 1, ONE + 2}

\* -1e-4, 0, 1e-4 (the default), 0.01 and 0.02
Precisions == {-(ONE \div 10000), 0, ONE \div 10000, ONE \div 100, ONE \div 50}

DEFAULT_PRECISION_FOR_THRESHOLDS == ONE \div 10000

CallGetContingencyTable ==
    /\ pc = "idle"
    /\ \E forecast_labels \in SeqsUpTo(LabelValues, MaxN),
          observed_labels \in SeqsUpTo(LabelValues, MaxN) :
          /\ call' = [fn |-> "get_contingency_table",
                      forecast_labels |-> forecast_labels,
                      observed_labels |-> observed_labels]
          /\ result' = get_contingency_table(forecast_labels, observed_labels)
    /\ pc' = "done"
    /\ UNCHANGED <<arrays, first_run>>

CallBinarizeForecastProbs ==
    /\ pc = "idle"
    /\ \E forecast_probabilities \in
              SeqsUpTo(ProbValues \cup OutOfRangeProbs, MaxN),
          binarization_threshold \in ThresholdValues :
          /\ call' = [fn |-> "binarize_forecast_probs",
                      forecast_probabilities |-> forecast_probabilities,
                      binarization_threshold |-> binarization_threshold]
          /\ result' = binarize_forecast_probs(forecast_probabilities,
                                               binarization_threshold)
    /\ pc' = "done"
    /\ UNCHANGED <<arrays, first_run>>

\* threshold_arg = "unique_forecasts" (or another string)
CallGetBinarizationThresholdsUnique ==
    /\ pc = "idle"
    /\ \E str \in {THRESHOLD_ARG_FOR_UNIQUE_FORECASTS, "unique"},
          forecast_probabilities \in
              SeqsUpTo(ProbValues \cup OutOfRangeProbs, MaxN),
          unique_forecast_precision \in Precisions :
          /\ call' = [fn |-> "get_binarization_thresholds",
                      threshold_arg |-> StringArg(str),
                      forecast_probabilities |-> forecast_probabilities,
                      unique_forecast_precision |-> unique_forecast_precision]
          /\ result' = get_binarization_thresholds(
                           StringArg(str), forecast_probabilities,
                           unique_forecast_precision)
    /\ pc' = "done"
    /\ UNCHANGED <<arrays, first_run>>

\* threshold_arg = an array of thresholds, a number of thresholds, or a
\* number that is no integer
CallGetBinarizationThresholdsGiven ==
    /\ pc = "idle"
    /\ \E threshold_arg \in
              {ArrayArg(a) : a \in SeqsUpTo(ThresholdValues, MaxN)}
              \cup {IntegerArg(n) : n \in 0..MaxNumThresholds}
              \cup {RealArg} :
          /\ call' = [fn |-> "get_binarization_thresholds",
                      threshold_arg |-> threshold_arg,
                      forecast_probabilities |-> <<>>,
                      unique_forecast_precision |->
                          DEFAULT_PRECISION_FOR_THRESHOLDS]
          /\ result' = get_binarization_thresholds(
                           threshold_arg, <<>>,
                           DEFAULT_PRECISION_FOR_THRESHOLDS)
    /\ pc' = "done"
    /\ UNCHANGED <<arrays, first_run>>

NextLabels ==
    \/ CallGetContingencyTable
    \/ CallBinarizeForecastProbs
    \/ CallGetBinarizationThresholdsUnique
    \/ CallGetBinarizationThresholdsGiven
    \/ Return

SpecLabels == Init /\ [][NextLabels]_vars

-----------------------------------------------------------------------------
(* Calls of the threshold sweeps *)

\* forecast probabilities in [0, 1] with as many labels in {0, 1}
ValidDatasets ==
    {d \in (SeqsUpTo(ProbValues, MaxN) \ {<<>>})
           \X (SeqsUpTo({0, 1}, MaxN) \ {<<>>}) : Len(d[1]) = Len(d[2])}

\* a probability above 1 or below 0, a label of 2, a label too few
InvalidDatasets ==
    {<<<<ONE + 1>>, <<1>>>>, <<<<-1, ONE>>, <<0, 1>>>>,
     <<<<0>>, <<2>>>>, <<<<0, ONE>>, <<1>>>>}

Datasets == ValidDatasets \cup InvalidDatasets

\* threshold_arg with unique_forecast_precision: the unique forecasts at two
\* precisions, arrays (sorted or not, with and without 0 and 1 + 1e-6, with
\* a duplicate), numbers of thresholds, and arguments that are refused
SweepThresholdArgs ==
    {<<StringArg(THRESHOLD_ARG_FOR_UNIQUE_FORECASTS), prec>> :
        prec \in {ONE \div 10000, ONE \div 100}}
    \cup {<<arg, DEFAULT_PRECISION_FOR_THRESHOLDS>> :
            arg \in {ArrayArg(<<ONE \div 2>>), ArrayArg(<<0, ONE + 1>>),
                     ArrayArg(<<ONE + 1, ONE \div 2>>), ArrayArg(<<ONE, 0>>),
                     ArrayArg(<<ONE \div 2, ONE \div 2>>),
                     ArrayArg(<<ONE + 2>>),
                     IntegerArg(1), RealArg, StringArg("unique")}
                    \cup {IntegerArg(n) : n \in 2..MaxNumThresholds}}

CallGetPointsInRocCurve ==
    /\ pc = "idle"
    /\ \E d \in Datasets, a \in SweepThresholdArgs :
          /\ call' = [fn |-> "get_points_in_roc_curve",
                      forecast_probabilities |-> d[1],
                      observed_labels |-> d[2],
                      threshold_arg |-> a[1],
                      unique_forecast_precision |-> a[2]]
          /\ result' = get_points_in_roc_curve(d[1], d[2], a[1], a[2])
    /\ pc' = "done"
    /\ UNCHANGED <<arrays, first_run>>

CallGetPointsInPerformanceDiagram ==
    /\ pc = "idle"
    /\ \E d \in Datasets, a \in SweepThresholdArgs :
          /\ call' = [fn |-> "get_points_in_performance_diagram",
                      forecast_probabilities |-> d[1],
                      observed_labels |-> d[2],
                      threshold_arg |-> a[1],
                      unique_forecast_precision |-> a[2]]
          /\ result' = get_points_in_performance_diagram(d[1], d[2],
                                                         a[1], a[2])
    /\ pc' = "done"
    /\ UNCHANGED <<arrays, first_run>>

NextSweep ==
    \/ CallGetPointsInRocCurve
    \/ CallGetPointsInPerformanceDiagram
    \/ Return

SpecSweep == Init /\ [][NextSweep]_vars

-----------------------------------------------------------------------------
(* Calls of get_area_under_roc_curve and get_brier_skill_score *)

PofdValues == {NaN, FZero, Rat(1, 2), FOne}
PodValues == {NaN, FZero, FOne}

\* numpy.argsort picks one of the orders that sort the POFD values
CallGetAreaUnderRocCurve ==
    /\ pc = "idle"
    /\ \E pofd_by_threshold \in SeqsUpTo(PofdValues, MaxPoints),
          pod_by_threshold \in SeqsUpTo(PodValues, MaxPoints) :
          /\ Len(pofd_by_threshold) = Len(pod_by_threshold)
          /\ \E sort_indices \in ArgsortDescending(pofd_by_threshold) :
                /\ call' = [fn |-> "get_area_under_roc_curve",
                            pofd_by_threshold |-> pofd_by_threshold,
                            pod_by_threshold |-> pod_by_threshold,
                            sort_indices |-> sort_indices]
                /\ result' = get_area_under_roc_curve(
                                 pofd_by_threshold, pod_by_threshold,
                                 sort_indices)
    /\ pc' = "done"
    /\ UNCHANGED <<arrays, first_run>>

NextAuc == CallGetAreaUnderRocCurve \/ Return

SpecAuc == Init /\ [][NextAuc]_vars

BinForecastValues == {NaN, FZero, Rat(1, 2)}
BinObservedValues == {NaN, FZero, FOne}
\* 0, 1/2 and 1, and 3/2, which is no frequency
Climatologies == {FZero, Rat(1, 2), FOne, Rat(3, 2)}

CallGetBrierSkillScore ==
    /\ pc = "idle"
    /\ \E num_forecast_bins \in 1..MaxBins :
       \E mean_forecast_prob_by_bin \in
              [1..num_forecast_bins -> BinForecastValues],
          mean_observed_label_by_bin \in
              [1..num_forecast_bins -> BinObservedValues],
          num_examples_by_bin \in [1..num_forecast_bins -> 0..MaxBinCount],
          climatology \in Climatologies :
          /\ call' = [fn |-> "get_brier_skill_score",
                      mean_forecast_prob_by_bin |-> mean_forecast_prob_by_bin,
                      mean_observed_label_by_bin |->
                          mean_observed_label_by_bin,
                      num_examples_by_bin |-> num_examples_by_bin,
                      climatology |-> climatology]
          /\ result' = get_brier_skill_score(
                           mean_forecast_prob_by_bin,
                           mean_observed_label_by_bin,
                           num_examples_by_bin, climatology)
    /\ pc' = "done"
    /\ UNCHANGED <<arrays, first_run>>

NextBss == CallGetBrierSkillScore \/ Return

SpecBss == Init /\ [][NextBss]_vars

-----------------------------------------------------------------------------
(* Calls of the cost functions *)

\* the example of the unit tests
BINARY_TARGET_VALUES == <<0, 0, 1, 0, 0, 0, 1, 0, 1, 1, 0>>

BINARY_PROBABILITY_MATRIX ==
    <<<<0, ONE>>, <<ONE, 0>>, <<0, ONE>>, <<ONE, 0>>,
      <<ONE \div 2, ONE \div 2>>, <<ONE \div 2, ONE \div 2>>,
      <<0, ONE>>, <<ONE, 0>>, <<0, ONE>>, <<ONE, 0>>,
      <<ONE \div 2, ONE \div 2>>>>

NEGATIVE_AUC == Rat(-3, 4)

\* the rows of a two-class probability matrix
ProbabilityRows == {<<0, ONE>>, <<ONE, 0>>, <<ONE \div 2, ONE \div 2>>}

\* target values with their class-probability matrix: every example of up
\* to MaxN rows, and the example of the unit tests
CostDatasets ==
    {d \in (SeqsUpTo({0, 1}, MaxN) \ {<<>>})
           \X (SeqsUpTo(ProbabilityRows, MaxN) \ {<<>>}) :
        Len(d[1]) = Len(d[2])}
    \cup {<<BINARY_TARGET_VALUES, BINARY_PROBABILITY_MATRIX>>}

\* the orders in which the area under the curve may sort the ROC points
CostSortIndices(target_values, class_probability_matrix) ==
    LET roc == RocCurveOfCost(target_values,
                              EventProbabilities(class_probability_matrix))
    IN  IF roc.raised THEN {<<>>}
        ELSE ArgsortDescending(roc.value.x_by_threshold)

CallNegativeAucFunction ==
    /\ pc = "idle"
    /\ \E d \in CostDatasets :
       \E sort_indices \in CostSortIndices(d[1], d[2]) :
          /\ call' = [fn |-> "negative_auc_function",
                      target_values |-> d[1],
                      class_probability_matrix |-> d[2],
                      sort_indices |-> sort_indices]
          /\ result' = negative_auc_function(d[1], d[2], sort_indices)
    /\ pc' = "done"
    /\ UNCHANGED <<arrays, first_run>>

NextCost == CallNegativeAucFunction \/ Return

SpecCost == Init /\ [][NextCost]_vars

-----------------------------------------------------------------------------
(* Calls of the functions that take the forecasts and the labels *)

\* 0, 1/2 and 1
CoarseProbValues == {0, ONE \div 2, ONE}

\* forecasts and labels of up to MaxN examples, those of the sweeps that
\* are refused, and the dataset without examples
EntryDatasets ==
    {d \in SeqsUpTo(CoarseProbValues, MaxN) \X SeqsUpTo({0, 1}, MaxN) :
        Len(d[1]) = Len(d[2])}
    \cup InvalidDatasets

CallGetBrierScore ==
    /\ pc = "idle"
    /\ \E d \in EntryDatasets :
          /\ call' = [fn |-> "get_brier_score",
                      forecast_probabilities |-> d[1],
                      observed_labels |-> d[2]]
          /\ result' = get_brier_score(d[1], d[2])
          /\ arrays' = ArraysOfCaller(d[1], d[2])
    /\ pc' = "done"
    /\ UNCHANGED first_run

CallGetCrossEntropy ==
    /\ pc = "idle"
    /\ \E d \in EntryDatasets :
          LET outcome == get_cross_entropy(d[1], d[2])
          IN  /\ call' = [fn |-> "get_cross_entropy",
                          forecast_probabilities |-> d[1],
                          observed_labels |-> d[2]]
              /\ result' = [raised |-> outcome.raised,
                            value |-> outcome.value]
              /\ arrays' = [forecast_probabilities |->
                                outcome.forecast_probabilities,
                            observed_labels |-> d[2]]
    /\ pc' = "done"
    /\ UNCHANGED first_run

CallGetPointsInReliabilityCurve ==
    /\ pc = "idle"
    /\ \E d \in EntryDatasets, num_forecast_bins \in 1..MaxBins :
          /\ call' = [fn |-> "get_points_in_reliability_curve",
                      forecast_probabilities |-> d[1],
                      observed_labels |-> d[2],
                      num_forecast_bins |-> num_forecast_bins]
          /\ result' = get_points_in_reliability_curve(d[1], d[2],
                                                       num_forecast_bins)
          /\ arrays' = ArraysOfCaller(d[1], d[2])
    /\ pc' = "done"
    /\ UNCHANGED first_run

NextEntry ==
    \/ CallGetBrierScore
    \/ CallGetCrossEntropy
    \/ CallGetPointsInReliabilityCurve
    \/ Return

SpecEntry == Init /\ [][NextEntry]_vars


-----------------------------------------------------------------------------
(* Calls of the bootstrap functions *)

\* forecasts of two examples: the two ends, and two in the upper half that
\* are not in ascending order
BootstrapForecasts == {<<0, ONE>>, <<ONE, ONE \div 2>>}

\* forecasts and labels of two examples, and datasets that are refused
BootstrapDatasets ==
    (BootstrapForecasts \X ({0, 1} \X {0, 1})) \cup InvalidDatasets

\* threshold_arg: the unique forecasts, two thresholds, and two arguments
\* that are refused
BootstrapThresholdArgs ==
    {StringArg(THRESHOLD_ARG_FOR_UNIQUE_FORECASTS), IntegerArg(2),
     StringArg("unique"), IntegerArg(1)}

\* num_bootstrap_iters: -1, 0, 1, the numbers from 2 on, and a number that
\* is no integer
NumBootstrapIters ==
    {IntegerArg(n) : n \in -1..MaxBootstrapIters} \cup {RealArg}

\* confidence_level: 0.95 (the default) and 1
ConfidenceLevels == {Rat(19, 20), FOne}

\* what bootstrapping.draw_sample may return in num_draws calls for an
\* array of num_values values
DrawnSamples(num_draws, num_values) ==
    [1..num_draws -> SampleIndices(num_values)]

\* Two of the orders numpy.argsort may give to equal values: by ascending
\* and by descending index.
TieOrders == {"ascending index", "descending index"}

RECURSIVE ArgsortRemaining(_, _, _)
\* the indices in remaining by descending value of a, the NaNs last, equal
\* values by tie_order
ArgsortRemaining(a, remaining, tie_order) ==
    IF remaining = {} THEN <<>>
    ELSE LET tie(i, k) == IF tie_order = "ascending index" THEN i < k
                          ELSE i > k
             before(i, k) ==
                 IF IsNaN(a[i]) THEN IsNaN(a[k]) /\ tie(i, k)
                 ELSE \/ IsNaN(a[k])
                      \/ a[k] # a[i] /\ FLeq(a[k], a[i])
                      \/ a[k] = a[i] /\ tie(i, k)
             first == CHOOSE i \in remaining :
                         \A k \in remaining \ {i} : before(i, k)
         IN  <<first>> \o ArgsortRemaining(a, remaining \ {first}, tie_order)

\* What numpy.argsort returns in the iterations of bootstrap_roc_curve;
\* nothing when no iteration is run.
RocSortIndices(forecast_probabilities, observed_labels, threshold_arg, unique_forecast_precision, sample_indices, tie_order) ==
    [j \in DOMAIN sample_indices |->
        LET tables == SampledTables(
                          forecast_probabilities, observed_labels,
                          get_binarization_thresholds(
                              threshold_arg, forecast_probabilities,
                              unique_forecast_precision).value,
                          sample_indices[j])
            pofd == [i \in DOMAIN tables |-> get_pofd(tables[i].value)]
        IN  ArgsortRemaining(pofd, DOMAIN pofd, tie_order)]

\* the number of samples that bootstrap_roc_curve and
\* bootstrap_performance_diagram draw: none when an argument is refused
NumSamplesOfSweep(forecast_probabilities, observed_labels, threshold_arg, unique_forecast_precision, num_bootstrap_iters) ==
    IF /\ check_forecast_probs_and_observed_labels(forecast_probabilities,
                                                   observed_labels)
       /\ ~get_binarization_thresholds(threshold_arg, forecast_probabilities,
                                       unique_forecast_precision).raised
       /\ IsIntegerGreaterThanOne(num_bootstrap_iters)
    THEN num_bootstrap_iters.num
    ELSE 0

\* the number of samples that bootstrap_reliability_curve draws
NumSamplesOfReliability(forecast_probabilities, observed_labels, num_bootstrap_iters) ==
    IF /\ check_forecast_probs_and_observed_labels(forecast_probabilities,
                                                   observed_labels)
       /\ IsMatrixDimension(num_bootstrap_iters)
    THEN num_bootstrap_iters.num
    ELSE 0

CallBootstrapRocCurve ==
    /\ pc = "idle"
    /\ \E d \in BootstrapDatasets, threshold_arg \in BootstrapThresholdArgs,
          num_bootstrap_iters \in NumBootstrapIters,
          confidence_level \in ConfidenceLevels, tie_order \in TieOrders :
       \E sample_indices \in
              DrawnSamples(NumSamplesOfSweep(
                               d[1], d[2], threshold_arg,
                               DEFAULT_PRECISION_FOR_THRESHOLDS,
                               num_bootstrap_iters),
                           Len(d[1])) :
          /\ call' = [fn |-> "bootstrap_roc_curve",
                      forecast_probabilities |-> d[1],
                      observed_labels |-> d[2],
                      threshold_arg |-> threshold_arg,
                      unique_forecast_precision |->
                          DEFAULT_PRECISION_FOR_THRESHOLDS,
                      num_bootstrap_iters |-> num_bootstrap_iters,
                      confidence_level |-> confidence_level,
                      sample_indices |-> sample_indices,
                      tie_order |-> tie_order]
          /\ result' = bootstrap_roc_curve(
                           d[1], d[2], threshold_arg,
                           DEFAULT_PRECISION_FOR_THRESHOLDS,
                           num_bootstrap_iters, confidence_level,
                           sample_indices,
                           RocSortIndices(d[1], d[2], threshold_arg,
                                          DEFAULT_PRECISION_FOR_THRESHOLDS,
                                          sample_indices, tie_order))
          /\ arrays' = ArraysAfterBootstrap(d[1], d[2], sample_indices)
    /\ pc' = "done"
    /\ UNCHANGED first_run

CallBootstrapPerformanceDiagram ==
    /\ pc = "idle"
    /\ \E d \in BootstrapDatasets, threshold_arg \in BootstrapThresholdArgs,
          num_bootstrap_iters \in NumBootstrapIters,
          confidence_level \in ConfidenceLevels :
       \E sample_indices \in
              DrawnSamples(NumSamplesOfSweep(
                               d[1], d[2], threshold_arg,
                               DEFAULT_PRECISION_FOR_THRESHOLDS,
                               num_bootstrap_iters),
                           Len(d[1])) :
          /\ call' = [fn |-> "bootstrap_performance_diagram",
                      forecast_probabilities |-> d[1],
                      observed_labels |-> d[2],
                      threshold_arg |-> threshold_arg,
                      unique_forecast_precision |->
                          DEFAULT_PRECISION_FOR_THRESHOLDS,
                      num_bootstrap_iters |-> num_bootstrap_iters,
                      confidence_level |-> confidence_level,
                      sample_indices |-> sample_indices]
          /\ result' = bootstrap_performance_diagram(
                           d[1], d[2], threshold_arg,
                           DEFAULT_PRECISION_FOR_THRESHOLDS,
                           num_bootstrap_iters, confidence_level,
                           sample_indices)
          /\ arrays' = ArraysAfterBootstrap(d[1], d[2], sample_indices)
    /\ pc' = "done"
    /\ UNCHANGED first_run

CallBootstrapReliabilityCurve ==
    /\ pc = "idle"
    /\ \E d \in BootstrapDatasets, num_forecast_bins \in 1..MaxBins,
          num_bootstrap_iters \in NumBootstrapIters,
          confidence_level \in ConfidenceLevels :
       \E sample_indices \in
              DrawnSamples(NumSamplesOfReliability(d[1], d[2],
                                                   num_bootstrap_iters),
                           Len(d[1])) :
          /\ call' = [fn |-> "bootstrap_reliability_curve",
                      forecast_probabilities |-> d[1],
                      observed_labels |-> d[2],
                      num_forecast_bins |-> num_forecast_bins,
                      num_bootstrap_iters |-> num_bootstrap_iters,
                      confidence_level |-> confidence_level,
                      sample_indices |-> sample_indices]
          /\ result' = bootstrap_reliability_curve(
                           d[1], d[2], num_forecast_bins,
                           num_bootstrap_iters, confidence_level,
                           sample_indices)
          /\ arrays' = ArraysAfterBootstrap(d[1], d[2], sample_indices)
    /\ pc' = "done"
    /\ UNCHANGED first_run

BootstrapFunctions ==
    {"bootstrap_roc_curve", "bootstrap_performance_diagram",
     "bootstrap_reliability_curve"}

\* the forecast probabilities that the caller's array holds
ForecastsOfCaller == [i \in DOMAIN arrays.forecast_probabilities |->
                         arrays.forecast_probabilities[i][1]]

\* The caller runs the same bootstrap function once more, with the arrays
\* as the first run left them, the same arguments and the random source in
\* the state it had before the first run, so draw_sample returns the same
\* index vectors.
CallAgain ==
    /\ pc = "done"
    /\ call.fn \in BootstrapFunctions
    /\ first_run' = result
    /\ result' =
           CASE call.fn = "bootstrap_roc_curve" ->
                    bootstrap_roc_curve(
                        ForecastsOfCaller, arrays.observed_labels,
                        call.threshold_arg, call.unique_forecast_precision,
                        call.num_bootstrap_iters, call.confidence_level,
                        call.sample_indices,
                        RocSortIndices(ForecastsOfCaller,
                                       arrays.observed_labels,
                                       call.threshold_arg,
                                       call.unique_forecast_precision,
                                       call.sample_indices, call.tie_order))
             [] call.fn = "bootstrap_performance_diagram" ->
                    bootstrap_performance_diagram(
                        ForecastsOfCaller, arrays.observed_labels,
                        call.threshold_arg, call.unique_forecast_precision,
                        call.num_bootstrap_iters, call.confidence_level,
                        call.sample_indices)
             [] call.fn = "bootstrap_reliability_curve" ->
                    bootstrap_reliability_curve(
                        ForecastsOfCaller, arrays.observed_labels,
                        call.num_forecast_bins, call.num_bootstrap_iters,
                        call.confidence_level, call.sample_indices)
    /\ arrays' = ArraysAfterBootstrap(ForecastsOfCaller,
                                      arrays.observed_labels,
                                      call.sample_indices)
    /\ pc' = "done again"
    /\ UNCHANGED call

NextBootstrap ==
    \/ CallBootstrapRocCurve
    \/ CallBootstrapPerformanceDiagram
    \/ CallBootstrapReliabilityCurve
    \/ CallAgain
    \/ Return

SpecBootstrap == Init /\ [][NextBootstrap]_vars


-----------------------------------------------------------------------------
(* Calls of the functions that check forecasts, labels and thresholds *)

NextValidation ==
    \/ CallGetBinarizationThresholdsUnique
    \/ CallGetBinarizationThresholdsGiven
    \/ CallGetPointsInRocCurve
    \/ CallGetPointsInPerformanceDiagram
    \/ CallGetBrierScore
    \/ CallGetCrossEntropy
    \/ CallGetPointsInReliabilityCurve
    \/ CallBootstrapRocCurve
    \/ CallBootstrapPerformanceDiagram
    \/ CallBootstrapReliabilityCurve
    \/ Return

SpecValidation == Init /\ [][NextValidation]_vars


-----------------------------------------------------------------------------
(* Calls of bootstrap_cost *)

\* target values and class probabilities of two examples, for the
\* replicates that are resampled
ReplicatedDatasets ==
    {d \in CostDatasets : Len(d[1]) = 2}

\* what bootstrapping.draw_sample returns in the replicates: nothing when
\* there is one replicate
SamplesOfReplicates(num_replicates, num_values) ==
    IF num_replicates = 1 THEN {<<>>}
    ELSE DrawnSamples(num_replicates, num_values)

\* the order of the ROC points of the examples at these_indices
SortIndicesOfCost(target_values, class_probability_matrix, these_indices, tie_order) ==
    LET roc == RocCurveOfCost(
                   Resampled(target_values, these_indices),
                   EventProbabilities(Resampled(class_probability_matrix,
                                                these_indices)))
    IN  ArgsortRemaining(roc.value.x_by_threshold,
                         DOMAIN roc.value.x_by_threshold, tie_order)

\* the order of the ROC points in each replicate
SortIndicesOfReplicates(target_values, class_probability_matrix, num_replicates, sample_indices, tie_order) ==
    IF num_replicates = 1
    THEN <<SortIndicesOfCost(target_values, class_probability_matrix,
                             [i \in DOMAIN target_values |-> i], tie_order)>>
    ELSE [k \in 1..num_replicates |->
             SortIndicesOfCost(target_values, class_probability_matrix,
                               sample_indices[k], tie_order)]

\* one replicate of any dataset, or several of a dataset of two examples
CallBootstrapCost ==
    /\ pc = "idle"
    /\ \E num_replicates \in 1..MaxReplicates, tie_order \in TieOrders :
       \E d \in IF num_replicates = 1 THEN CostDatasets
                ELSE ReplicatedDatasets :
       \E sample_indices \in SamplesOfReplicates(num_replicates, Len(d[1])) :
          /\ call' = [fn |-> "bootstrap_cost",
                      target_values |-> d[1],
                      class_probability_matrix |-> d[2],
                      num_replicates |-> num_replicates,
                      sample_indices |-> sample_indices,
                      tie_order |-> tie_order]
          /\ result' = bootstrap_cost(
                           d[1], d[2], num_replicates, sample_indices,
                           SortIndicesOfReplicates(d[1], d[2], num_replicates,
                                                   sample_indices, tie_order))
    /\ pc' = "done"
    /\ UNCHANGED <<arrays, first_run>>

NextReplicates == CallBootstrapCost \/ Return

SpecReplicates == Init /\ [][NextReplicates]_vars


-----------------------------------------------------------------------------
(* Calls of the functions of SPC dates *)

\* calendar days around the epoch, the end of a February with and without
\* a leap day, the end of a year, the day of the docstrings, and days
\* before the year 1000 and around the end of the year 9999
SampleDates ==
    {[year |-> 385, month |-> 7, day |-> 24],
     [year |-> 999, month |-> 12, day |-> 31],
     [year |-> 1000, month |-> 1, day |-> 1],
     [year |-> 1969, month |-> 12, day |-> 31],
     [year |-> 1970, month |-> 1, day |-> 1],
     [year |-> 1970, month |-> 2, day |-> 28],
     [year |-> 1970, month |-> 3, day |-> 1],
     [year |-> 2000, month |-> 2, day |-> 28],
     [year |-> 2000, month |-> 2, day |-> 29],
     [year |-> 2000, month |-> 3, day |-> 1],
     [year |-> 2017, month |-> 10, day |-> 28],
     [year |-> 2017, month |-> 10, day |-> 29],
     [year |-> 9999, month |-> 12, day |-> 31],
     [year |-> 10000, month |-> 1, day |-> 1]}

\* seconds of the day up to MaxSecondsFromNoon from midnight, from noon
\* and from 1800 UTC
SecondsOfDay ==
    {s \in 0..(DAYS_TO_SECONDS - 1) :
        \E mark \in {0, MIN_SECONDS_INTO_SPC_DATE,
                     SECONDS_INTO_SPC_DATE_DEFAULT, DAYS_TO_SECONDS} :
            s - mark \in (-MaxSecondsFromNoon)..MaxSecondsFromNoon}

UnixTimes ==
    {PlusSeconds(Timegm(date), s) : date \in SampleDates, s \in SecondsOfDay}

\* the dates as strings, and a string that spells no date
SpcDateStrings ==
    {StrftimeDate(date) : date \in SampleDates}
    \cup {<<2, 0, 1, 7, 0, 2, 3, 0>>}

CallTimeToSpcDateString ==
    /\ pc = "idle"
    /\ \E unix_time_sec \in UnixTimes :
          /\ call' = [fn |-> "time_to_spc_date_string",
                      unix_time_sec |-> unix_time_sec]
          /\ result' = Returned(time_to_spc_date_string(unix_time_sec))
    /\ pc' = "done"
    /\ UNCHANGED <<arrays, first_run>>

CallTimeToSpcDateUnixSec ==
    /\ pc = "idle"
    /\ \E unix_time_sec \in UnixTimes :
          /\ call' = [fn |-> "time_to_spc_date_unix_sec",
                      unix_time_sec |-> unix_time_sec]
          /\ result' = Returned(time_to_spc_date_unix_sec(unix_time_sec))
    /\ pc' = "done"
    /\ UNCHANGED <<arrays, first_run>>

CallSpcDateStringToUnixSec ==
    /\ pc = "idle"
    /\ \E spc_date_string \in SpcDateStrings :
          /\ call' = [fn |-> "spc_date_string_to_unix_sec",
                      spc_date_string |-> spc_date_string]
          /\ result' = spc_date_string_to_unix_sec(spc_date_string)
    /\ pc' = "done"
    /\ UNCHANGED <<arrays, first_run>>

CallGetStartOfSpcDate ==
    /\ pc = "idle"
    /\ \E spc_date_string \in SpcDateStrings :
          /\ call' = [fn |-> "get_start_of_spc_date",
                      spc_date_string |-> spc_date_string]
          /\ result' = get_start_of_spc_date(spc_date_string)
    /\ pc' = "done"
    /\ UNCHANGED <<arrays, first_run>>

CallGetEndOfSpcDate ==
    /\ pc = "idle"
    /\ \E spc_date_string \in SpcDateStrings :
          /\ call' = [fn |-> "get_end_of_spc_date",
                      spc_date_string |-> spc_date_string]
          /\ result' = get_end_of_spc_date(spc_date_string)
    /\ pc' = "done"
    /\ UNCHANGED <<arrays, first_run>>

CallIsTimeInSpcDate ==
    /\ pc = "idle"
    /\ \E unix_time_sec \in UnixTimes, spc_date_string \in SpcDateStrings :
          /\ call' = [fn |-> "is_time_in_spc_date",
                      unix_time_sec |-> unix_time_sec,
                      spc_date_string |-> spc_date_string]
          /\ result' = is_time_in_spc_date(unix_time_sec, spc_date_string)
    /\ pc' = "done"
    /\ UNCHANGED <<arrays, first_run>>

NextSpcDate ==
    \/ CallTimeToSpcDateString
    \/ CallTimeToSpcDateUnixSec
    \/ CallSpcDateStringToUnixSec
    \/ CallGetStartOfSpcDate
    \/ CallGetEndOfSpcDate
    \/ CallIsTimeInSpcDate
    \/ Return

SpecSpcDate == Init /\ [][NextSpcDate]_vars


-----------------------------------------------------------------------------
(* Calls of get_no_skill_reliability_curve, and of get_brier_skill_score *)
(* with a point of the no-skill line                                      *)

\* the multiples of 1 / NumNoSkillSteps from 0 to 1
UnitFractions == {Rat(k, NumNoSkillSteps) : k \in 0..NumNoSkillSteps}

\* the multiples below 0 and above 1 that are nearest
FractionsOutsideUnit ==
    {Rat(-1, NumNoSkillSteps), Rat(NumNoSkillSteps + 1, NumNoSkillSteps)}

\* the point at x of the line through two points
PointOfLine(x_values, y_values, x) ==
    FAdd(y_values[1],
         FMul(FSub(x, x_values[1]),
              NumpyDivide(FSub(y_values[2], y_values[1]),
                          FSub(x_values[2], x_values[1]))))

CallGetNoSkillReliabilityCurve ==
    /\ pc = "idle"
    /\ \E mean_observed_label \in UnitFractions \cup FractionsOutsideUnit :
          /\ call' = [fn |-> "get_no_skill_reliability_curve",
                      mean_observed_label |-> mean_observed_label]
          /\ result' = get_no_skill_reliability_curve(mean_observed_label)
    /\ pc' = "done"
    /\ UNCHANGED <<arrays, first_run>>

\* one bin whose mean forecast and mean observed label are a point of the
\* no-skill line of the climatology
CallGetBrierSkillScoreOfNoSkillPoint ==
    /\ pc = "idle"
    /\ \E climatology \in UnitFractions, mean_forecast_prob \in UnitFractions,
          num_examples \in 1..MaxBinCount :
          LET line == get_no_skill_reliability_curve(climatology).value
              mean_observed_label ==
                  PointOfLine(line.x_values, line.y_values,
                              mean_forecast_prob)
          IN  /\ call' = [fn |-> "get_brier_skill_score",
                          no_skill_line |-> line,
                          mean_forecast_prob_by_bin |-> <<mean_forecast_prob>>,
                          mean_observed_label_by_bin |->
                              <<mean_observed_label>>,
                          num_examples_by_bin |-> <<num_examples>>,
                          climatology |-> climatology]
              /\ result' = get_brier_skill_score(
                               <<mean_forecast_prob>>,
                               <<mean_observed_label>>,
                               <<num_examples>>, climatology)
    /\ pc' = "done"
    /\ UNCHANGED <<arrays, first_run>>

NextNoSkill ==
    \/ CallGetNoSkillReliabilityCurve
    \/ CallGetBrierSkillScoreOfNoSkillPoint
    \/ Return

SpecNoSkill == Init /\ [][NextNoSkill]_vars


-----------------------------------------------------------------------------
(* Calls of get_area_under_roc_curve with the points that                 *)
(* get_points_in_roc_curve returns for the unique forecasts               *)

\* forecasts that are multiples of the precision, with their labels
RankedDatasets ==
    {d \in (SeqsUpTo(CoarseProbValues, MaxN) \ {<<>>})
           \X (SeqsUpTo({0, 1}, MaxN) \ {<<>>}) :
        Len(d[1]) = Len(d[2])}

RocCurveOfUniqueForecasts(forecast_probabilities, observed_labels) ==
    get_points_in_roc_curve(
        forecast_probabilities, observed_labels,
        StringArg(THRESHOLD_ARG_FOR_UNIQUE_FORECASTS),
        DEFAULT_PRECISION_FOR_THRESHOLDS)

AreaUnderRocCurveCalled(forecast_probabilities, observed_labels, roc, sort_indices) ==
    /\ call' = [fn |-> "get_area_under_roc_curve",
                forecast_probabilities |-> forecast_probabilities,
                observed_labels |-> observed_labels,
                pofd_by_threshold |-> roc.x_by_threshold,
                pod_by_threshold |-> roc.pod_by_threshold,
                sort_indices |-> sort_indices]
    /\ result' = get_area_under_roc_curve(
                     roc.x_by_threshold, roc.pod_by_threshold, sort_indices)

CallGetAreaUnderRocCurveOfUniqueForecasts ==
    /\ pc = "idle"
    /\ \E d \in RankedDatasets :
       \E sort_indices \in
              ArgsortDescending(
                  RocCurveOfUniqueForecasts(d[1], d[2]).value.x_by_threshold) :
          AreaUnderRocCurveCalled(
              d[1], d[2], RocCurveOfUniqueForecasts(d[1], d[2]).value,
              sort_indices)
    /\ pc' = "done"
    /\ UNCHANGED <<arrays, first_run>>

NextRocArea == CallGetAreaUnderRocCurveOfUniqueForecasts \/ Return

SpecRocArea == Init /\ [][NextRocArea]_vars


-----------------------------------------------------------------------------
(* Calls of the bootstrap functions with many iterations *)

\* all iterations draw the sample most, or all but the last, which draws
\* another: most is the first example twice or the two examples as given
SamplesOfManyIters(num_values) ==
    {[j \in 1..ManyBootstrapIters |->
         IF j <= ManyBootstrapIters - num_others THEN most ELSE other] :
        most \in {[i \in 1..num_values |-> 1], [i \in 1..num_values |-> i]},
        other \in SampleIndices(num_values), num_others \in {0, 1}}

\* forecasts 0 and 1 of two examples, with labels of which one at most is 1
ManyItersDatasets == {<<0, ONE>>} \X {<<0, 0>>, <<0, 1>>, <<1, 0>>}

CallBootstrapRocCurveManyIters ==
    /\ pc = "idle"
    /\ \E d \in ManyItersDatasets, confidence_level \in ConfidenceLevels,
          tie_order \in {"ascending index"},
          sample_indices \in SamplesOfManyIters(2) :
          /\ call' = [fn |-> "bootstrap_roc_curve",
                      forecast_probabilities |-> d[1],
                      observed_labels |-> d[2],
                      threshold_arg |->
                          StringArg(THRESHOLD_ARG_FOR_UNIQUE_FORECASTS),
                      unique_forecast_precision |->
                          DEFAULT_PRECISION_FOR_THRESHOLDS,
                      num_bootstrap_iters |-> IntegerArg(ManyBootstrapIters),
                      confidence_level |-> confidence_level,
                      sample_indices |-> sample_indices,
                      tie_order |-> tie_order]
          /\ result' = bootstrap_roc_curve(
                           d[1], d[2],
                           StringArg(THRESHOLD_ARG_FOR_UNIQUE_FORECASTS),
                           DEFAULT_PRECISION_FOR_THRESHOLDS,
                           IntegerArg(ManyBootstrapIters), confidence_level,
                           sample_indices,
                           RocSortIndices(
                               d[1], d[2],
                               StringArg(THRESHOLD_ARG_FOR_UNIQUE_FORECASTS),
                               DEFAULT_PRECISION_FOR_THRESHOLDS,
                               sample_indices, tie_order))
          /\ arrays' = ArraysAfterBootstrap(d[1], d[2], sample_indices)
    /\ pc' = "done"
    /\ UNCHANGED first_run

CallBootstrapPerformanceDiagramManyIters ==
    /\ pc = "idle"
    /\ \E d \in ManyItersDatasets, confidence_level \in ConfidenceLevels,
          sample_indices \in SamplesOfManyIters(2) :
          /\ call' = [fn |-> "bootstrap_performance_diagram",
                      forecast_probabilities |-> d[1],
                      observed_labels |-> d[2],
                      threshold_arg |->
                          StringArg(THRESHOLD_ARG_FOR_UNIQUE_FORECASTS),
                      unique_forecast_precision |->
                          DEFAULT_PRECISION_FOR_THRESHOLDS,
                      num_bootstrap_iters |-> IntegerArg(ManyBootstrapIters),
                      confidence_level |-> confidence_level,
                      sample_indices |-> sample_indices]
          /\ result' = bootstrap_performance_diagram(
                           d[1], d[2],
                           StringArg(THRESHOLD_ARG_FOR_UNIQUE_FORECASTS),
                           DEFAULT_PRECISION_FOR_THRESHOLDS,
                           IntegerArg(ManyBootstrapIters), confidence_level,
                           sample_indices)
          /\ arrays' = ArraysAfterBootstrap(d[1], d[2], sample_indices)
    /\ pc' = "done"
    /\ UNCHANGED first_run

CallBootstrapReliabilityCurveManyIters ==
    /\ pc = "idle"
    /\ \E d \in ManyItersDatasets, num_forecast_bins \in 1..MaxBins,
          confidence_level \in ConfidenceLevels,
          sample_indices \in SamplesOfManyIters(2) :
          /\ call' = [fn |-> "bootstrap_reliability_curve",
                      forecast_probabilities |-> d[1],
                      observed_labels |-> d[2],
                      num_forecast_bins |-> num_forecast_bins,
                      num_bootstrap_iters |-> IntegerArg(ManyBootstrapIters),
                      confidence_level |-> confidence_level,
                      sample_indices |-> sample_indices]
          /\ result' = bootstrap_reliability_curve(
                           d[1], d[2], num_forecast_bins,
                           IntegerArg(ManyBootstrapIters), confidence_level,
                           sample_indices)
          /\ arrays' = ArraysAfterBootstrap(d[1], d[2], sample_indices)
    /\ pc' = "done"
    /\ UNCHANGED first_run

NextManyIters ==
    \/ CallBootstrapRocCurveManyIters
    \/ CallBootstrapPerformanceDiagramManyIters
    \/ CallBootstrapReliabilityCurveManyIters
    \/ Return

SpecManyIters == Init /\ [][NextManyIters]_vars


-----------------------------------------------------------------------------
(* Calls of get_brier_skill_score with the reliability curve of a dataset *)

\* forecasts and labels of 1 to MaxN examples
DecomposedDatasets ==
    {d \in (SeqsUpTo(CoarseProbValues, MaxN) \ {<<>>})
           \X (SeqsUpTo({0, 1}, MaxN) \ {<<>>}) :
        Len(d[1]) = Len(d[2])}

BrierSkillScoreOfCurveCalled(forecast_probabilities, observed_labels, num_forecast_bins, curve, climatology) ==
    /\ call' = [fn |-> "get_brier_skill_score",
                forecast_probabilities |-> forecast_probabilities,
                observed_labels |-> observed_labels,
                num_forecast_bins |-> num_forecast_bins,
                mean_forecast_prob_by_bin |-> curve.mean_forecast_prob_by_bin,
                mean_observed_label_by_bin |->
                    curve.mean_observed_label_by_bin,
                num_examples_by_bin |-> curve.num_examples_by_bin,
                climatology |-> climatology]
    /\ result' = get_brier_skill_score(
                     curve.mean_forecast_prob_by_bin,
                     curve.mean_observed_label_by_bin,
                     curve.num_examples_by_bin, climatology)

\* the three arrays of get_points_in_reliability_curve, and the mean of the
\* observed labels as the climatology
CallGetBrierSkillScoreOfReliabilityCurve ==
    /\ pc = "idle"
    /\ \E d \in DecomposedDatasets, num_forecast_bins \in 1..MaxBins :
          BrierSkillScoreOfCurveCalled(
              d[1], d[2], num_forecast_bins,
              get_points_in_reliability_curve(d[1], d[2],
                                              num_forecast_bins).value,
              MeanOf(d[2], 1))
    /\ pc' = "done"
    /\ UNCHANGED <<arrays, first_run>>

NextDecomposition == CallGetBrierSkillScoreOfReliabilityCurve \/ Return

SpecDecomposition == Init /\ [][NextDecomposition]_vars


Next ==
    \/ NextScores \/ NextLabels \/ NextSweep \/ NextAuc \/ NextBss
    \/ NextCost \/ NextEntry \/ NextBootstrap \/ NextReplicates
    \/ NextSpcDate \/ NextNoSkill \/ NextRocArea
    \/ NextManyIters \/ NextDecomposition

Spec == Init /\ [][Next]_vars

-----------------------------------------------------------------------------
(* Claims about the scores of a contingency table *)

TP == call.contingency_table_as_dict.num_true_positives
FP == call.contingency_table_as_dict.num_false_positives
FN == call.contingency_table_as_dict.num_false_negatives
TN == call.contingency_table_as_dict.num_true_negatives

ScoreCalled(fn) == pc = "done" /\ call.fn = fn

RatioScores ==
    {"get_pod", "get_pofd", "get_success_ratio", "get_dfr", "get_csi",
     "get_frequency_bias", "get_accuracy", "get_heidke_score"}

RatioNumerator(fn) ==
    CASE fn = "get_pod" -> TP
      [] fn = "get_pofd" -> FP
      [] fn = "get_success_ratio" -> TP
      [] fn = "get_dfr" -> FN
      [] fn = "get_csi" -> TP
      [] fn = "get_frequency_bias" -> TP + FP
      [] fn = "get_accuracy" -> TP + TN
      [] fn = "get_heidke_score" -> 2 * (TP * TN - FP * FN)

RatioDenominator(fn) ==
    CASE fn = "get_pod" -> TP + FN
      [] fn = "get_pofd" -> FP + TN
      [] fn = "get_success_ratio" -> TP + FP
      [] fn = "get_dfr" -> FN + TN
      [] fn = "get_csi" -> TP + FP + FN
      [] fn = "get_frequency_bias" -> TP + FN
      [] fn = "get_accuracy" -> TP + FP + FN + TN
      [] fn = "get_heidke_score" ->
            (TP + FP) * (FP + TN) + (TP + FN) * (FN + TN)

\* the result is the fraction num/den
IsRatio(x, num, den) == IsNum(x) /\ x.n * den = num * x.d

\* C4: every ratio score returns NaN exactly when its denominator is zero
\* and the exact ratio otherwise, and never raises; FOM, FAR, NPV, FOCN and
\* the Peirce score are NaN whenever a score they are built from is NaN.
C4_ScoresAreNaNOnZeroDenominator ==
    /\ (pc = "done" /\ call.fn \in ScoreFunctions) => ~result.raised
    /\ (pc = "done" /\ call.fn \in RatioScores) =>
          /\ (RatioDenominator(call.fn) = 0) <=> IsNaN(result.value)
          /\ RatioDenominator(call.fn) # 0 =>
                IsRatio(result.value, RatioNumerator(call.fn),
                        RatioDenominator(call.fn))
    /\ (ScoreCalled("get_fom") /\ TP + FN = 0) => IsNaN(result.value)
    /\ (ScoreCalled("get_far") /\ TP + FP = 0) => IsNaN(result.value)
    /\ (ScoreCalled("get_npv") /\ FP + TN = 0) => IsNaN(result.value)
    /\ (ScoreCalled("get_focn") /\ FN + TN = 0) => IsNaN(result.value)
    /\ (ScoreCalled("get_peirce_score") /\ (TP + FN = 0 \/ FP + TN = 0)) =>
          IsNaN(result.value)

\* a POD asked of a table without observed events came back as NaN
C4_Witness ==
    /\ ScoreCalled("get_pod") /\ TP + FN = 0 /\ FP + TN > 0
    /\ ~result.raised /\ IsNaN(result.value)

\* C5 as stated: the Heidke score is 2(TP*TN - FP*FN) divided by
\* (TP+FP)(FN+TN) + (TP+FN)(FP+TN), and NaN when that denominator is zero.
C5_HeidkeAsStated ==
    ScoreCalled("get_heidke_score") =>
        LET den == (TP + FP) * (FN + TN) + (TP + FN) * (FP + TN)
        IN  /\ ~result.raised
            /\ den = 0 => IsNaN(result.value)
            /\ den # 0 => IsRatio(result.value, 2 * (TP * TN - FP * FN), den)

\* C5 amended: the Heidke score is 2(TP*TN - FP*FN) divided by
\* (TP+FP)(FP+TN) + (TP+FN)(FN+TN), and NaN when that denominator is zero.
C5_HeidkeAsCoded ==
    ScoreCalled("get_heidke_score") =>
        LET den == (TP + FP) * (FP + TN) + (TP + FN) * (FN + TN)
        IN  /\ ~result.raised
            /\ den = 0 => IsNaN(result.value)
            /\ den # 0 => IsRatio(result.value, 2 * (TP * TN - FP * FN), den)

\* TP = FP = TN = 1, FN = 0: the two groupings give 2/4 and 2/5
C5_Witness ==
    /\ ScoreCalled("get_heidke_score")
    /\ TP = 1 /\ FP = 1 /\ FN = 0 /\ TN = 1
    /\ result.value = Rat(2, 5)

\* C6 as stated: for every contingency table, the CSI computed from success
\* ratio and POD agrees with the CSI computed from the counts.
C6_CsiAgreesForEveryTable ==
    ScoreCalled("csi_from_sr_and_pod") =>
        /\ ~result.raised
        /\ result.value[1] = get_csi(call.contingency_table_as_dict)

\* C6 amended: the two agree when success ratio and POD are both defined
\* (TP+FP > 0 and TP+FN > 0, TP = 0 included) and when neither is (both are
\* NaN); when exactly one of them is NaN, csi_from_sr_and_pod is NaN while
\* get_csi is 0.
C6_CsiAgreesWhenBothDefined ==
    ScoreCalled("csi_from_sr_and_pod") =>
        LET csi == get_csi(call.contingency_table_as_dict)
        IN  /\ ~result.raised
            /\ (TP + FP > 0 /\ TP + FN > 0) =>
                  IsNum(csi) /\ result.value[1] = csi
            /\ (TP + FP = 0 /\ TP + FN = 0) =>
                  IsNaN(csi) /\ IsNaN(result.value[1])
            /\ (TP + FP = 0) # (TP + FN = 0) =>
                  csi = FZero /\ IsNaN(result.value[1])

\* no hit but false alarms and misses: success ratio and POD are both 0, and
\* the CSI from them is 0 through 1/(inf + inf - 1)
C6_Witness ==
    /\ ScoreCalled("csi_from_sr_and_pod")
    /\ TP = 0 /\ FP > 0 /\ FN > 0
    /\ call.success_ratio_array = <<FZero>> /\ call.pod_array = <<FZero>>
    /\ result.value = <<FZero>>

-----------------------------------------------------------------------------
(* Claims about labels, probabilities and thresholds *)

Called(fn) == pc = "done" /\ call.fn = fn

IsBinary(a) == \A i \in DOMAIN a : a[i] \in {0, 1}

NumEqual(a, x) == Cardinality({i \in DOMAIN a : a[i] = x})

\* C1: for equal-length 0/1 arrays of length N, get_contingency_table
\* returns four non-negative counts that sum to N, each example counted in
\* exactly one cell (so the cells also add up to the numbers of "yes"
\* forecasts and of observed events).
C1_ContingencyTableSumsToN ==
    (/\ Called("get_contingency_table")
     /\ IsBinary(call.forecast_labels) /\ IsBinary(call.observed_labels)
     /\ Len(call.forecast_labels) = Len(call.observed_labels)) =>
        /\ ~result.raised
        /\ LET t == result.value
           IN  /\ t.num_true_positives >= 0 /\ t.num_false_positives >= 0
               /\ t.num_false_negatives >= 0 /\ t.num_true_negatives >= 0
               /\ t.num_true_positives + t.num_false_positives
                  + t.num_false_negatives + t.num_true_negatives
                  = Len(call.forecast_labels)
               /\ t.num_true_positives + t.num_false_positives
                  = NumEqual(call.forecast_labels, 1)
               /\ t.num_true_positives + t.num_false_negatives
                  = NumEqual(call.observed_labels, 1)

\* a table with a miss and a correct null among three examples
C1_Witness ==
    /\ Called("get_contingency_table") /\ ~result.raised
    /\ Len(call.forecast_labels) = 3
    /\ result.value.num_false_negatives = 1
    /\ result.value.num_true_negatives = 1
    /\ result.value.num_true_positives = 1

IsAscending(a) == \A i \in 1..(Len(a) - 1) : a[i] <= a[i + 1]

MinOf(a) == CHOOSE x \in {a[i] : i \in DOMAIN a} : \A j \in DOMAIN a : x <= a[j]
MaxOf(a) == CHOOSE x \in {a[i] : i \in DOMAIN a} : \A j \in DOMAIN a : x >= a[j]

\* the thresholds of the call before padding, in any order
UnpaddedThresholds ==
    IF call.threshold_arg.kind = "str"
    THEN LET rounded == {RoundToNearest(call.forecast_probabilities[i],
                                        call.unique_forecast_precision) :
                            i \in DOMAIN call.forecast_probabilities}
         IN  SortedSeqOfSet(rounded)
    ELSE IF call.threshold_arg.kind = "ndarray" THEN call.threshold_arg.array
    ELSE [i \in 1..call.threshold_arg.num |->
             ((i - 1) * ONE) \div (call.threshold_arg.num - 1)]

\* C2: in each of the three modes the returned thresholds are sorted
\* ascending, the smallest is <= 0 and the largest is > 1; they are the
\* thresholds of the mode with 0 prepended when their minimum exceeds 0 and
\* 1 + 1e-6 appended when their maximum is below 1 + 1e-6.
C2_ThresholdsArePadded ==
    (Called("get_binarization_thresholds") /\ ~result.raised) =>
        LET v == result.value
            u == UnpaddedThresholds
            prepended == MinOf(u) > 0
            appended == MaxOf(u) < ONE + 1
        IN  /\ IsAscending(v)
            /\ v[1] <= 0
            /\ v[Len(v)] > ONE
            /\ Len(v) = Len(u) + (IF prepended THEN 1 ELSE 0)
                               + (IF appended THEN 1 ELSE 0)
            /\ prepended => v[1] = 0
            /\ appended => v[Len(v)] = ONE + 1
            /\ \A x \in {u[i] : i \in DOMAIN u} :
                  NumEqual(u, x)
                  + (IF prepended /\ x = 0 THEN 1 ELSE 0)
                  + (IF appended /\ x = ONE + 1 THEN 1 ELSE 0)
                  = NumEqual(v, x)

\* the unsorted array (1, 0.5) came back as (0, 0.5, 1, 1 + 1e-6)
C2_Witness ==
    /\ Called("get_binarization_thresholds") /\ ~result.raised
    /\ call.threshold_arg = ArrayArg(<<ONE, ONE \div 2>>)
    /\ result.value = <<0, ONE \div 2, ONE, ONE + 1>>

\* C3: binarize_forecast_probs accepts only probabilities in [0, 1] and a
\* threshold in [0, 1 + 1e-6], and returns an array of the same length whose
\* i-th element is 1 if probabilities[i] >= threshold and 0 otherwise.
C3_BinarizeIsGeqThreshold ==
    Called("binarize_forecast_probs") =>
        LET p == call.forecast_probabilities
            f == call.binarization_threshold
        IN  /\ ~result.raised <=>
                  /\ \A i \in DOMAIN p : 0 <= p[i] /\ p[i] <= ONE
                  /\ 0 <= f /\ f <= ONE + 1
            /\ ~result.raised =>
                  /\ Len(result.value) = Len(p)
                  /\ \A i \in DOMAIN p :
                        /\ result.value[i] \in {0, 1}
                        /\ result.value[i] = 1 <=> p[i] >= f

\* a probability equal to the threshold became "yes", a smaller one "no"
C3_Witness ==
    /\ Called("binarize_forecast_probs") /\ ~result.raised
    /\ call.binarization_threshold = ONE \div 2
    /\ call.forecast_probabilities = <<ONE \div 2, ONE \div 2 - 40>>
    /\ result.value = <<1, 0>>

-----------------------------------------------------------------------------
(* Claims about the threshold sweeps *)

NumThresholds == Len(result.value.binarization_thresholds)

NumYesForecasts(t) == t.num_true_positives + t.num_false_positives

-----------------------------------------------------------------------------
(* Claims about the Brier skill score and the area under the ROC curve *)

\* C7: get_brier_skill_score returns brier_skill_score = NaN whenever
\* uncertainty = climatology * (1 - climatology) is zero, for any per-bin
\* means and counts, and (resolution - reliability) / uncertainty otherwise.
C7_BssIsNaNWithoutUncertainty ==
    (Called("get_brier_skill_score") /\ ~result.raised) =>
        LET v == result.value
            c == call.climatology
            num == FSub(v.resolution, v.reliability)
        IN  /\ v.uncertainty = Rat(c.n * (c.d - c.n), c.d * c.d)
            /\ v.uncertainty = FZero => IsNaN(v.brier_skill_score)
            /\ (v.uncertainty # FZero /\ IsNum(num)) =>
                  /\ IsNum(v.brier_skill_score)
                  /\ FMul(v.brier_skill_score, v.uncertainty) = num

\* the pairs of the call in the order of sort_indices, without those
\* that hold a NaN
RemainingPairs ==
    SelectSeq([i \in 1..Len(call.sort_indices) |->
                  <<call.pofd_by_threshold[call.sort_indices[i]],
                    call.pod_by_threshold[call.sort_indices[i]]>>],
              LAMBDA pair : ~IsNaN(pair[1]) /\ ~IsNaN(pair[2]))

RECURSIVE AreaUnder(_)
\* the trapezoids under consecutive (POFD, POD) pairs of falling POFD
AreaUnder(pairs) ==
    IF Len(pairs) < 2 THEN FZero
    ELSE FAdd(FMul(FSub(pairs[1][1], pairs[2][1]),
                   NumpyDivide(FAdd(pairs[1][2], pairs[2][2]), Rat(2, 1))),
              AreaUnder(Tail(pairs)))

IsDescending(pairs) ==
    \A i \in 1..(Len(pairs) - 1) : FLeq(pairs[i + 1][1], pairs[i][1])

\* C10 as stated: the pairs are ordered by descending POFD, every pair with
\* a NaN is dropped and the trapezoidal area of the remaining pairs is
\* returned; when every pair holds a NaN the result is NaN.
C10_AreaOfRemainingPairs ==
    Called("get_area_under_roc_curve") =>
        /\ ~result.raised
        /\ IsDescending(RemainingPairs)
        /\ RemainingPairs = <<>> => IsNaN(result.value)
        /\ RemainingPairs # <<>> => result.value = AreaUnder(RemainingPairs)

\* C10 amended: as stated when at least two pairs remain or none does; when
\* exactly one pair is free of NaN the call raises (the integrator,
\* sklearn.metrics.auc, needs two points) instead of returning an area.  A
\* pair with a NaN never turns the area of two or more remaining pairs
\* into NaN.
C10_AreaOfTwoOrMoreRemainingPairs ==
    Called("get_area_under_roc_curve") =>
        /\ IsDescending(RemainingPairs)
        /\ result.raised <=> Len(RemainingPairs) = 1
        /\ RemainingPairs = <<>> => IsNaN(result.value)
        /\ Len(RemainingPairs) >= 2 =>
              /\ IsNum(result.value)
              /\ result.value = AreaUnder(RemainingPairs)

\* (0, 0), (NaN, 1), (1, 1) given in ascending order: the NaN pair is
\* dropped and the area under (1, 1), (0, 0) is 1/2
C10_Witness ==
    /\ Called("get_area_under_roc_curve") /\ ~result.raised
    /\ call.pofd_by_threshold = <<FZero, NaN, FOne>>
    /\ call.pod_by_threshold = <<FZero, FOne, FOne>>
    /\ call.sort_indices[1] = 3
    /\ result.value = Rat(1, 2)

-----------------------------------------------------------------------------
(* Claims about the cost functions *)

\* C11: for the 11 examples of the unit tests (labels
\* [0,0,1,0,0,0,1,0,1,1,0], second column of the probability matrix
\* [1,0,1,0,.5,.5,1,0,1,0,.5]) the negative-AUC cost is -0.75: the area under
\* the ROC curve of the event probabilities against the labels is 0.75.
C11_NegativeAucOfTestExample ==
    (/\ Called("negative_auc_function")
     /\ call.target_values = BINARY_TARGET_VALUES
     /\ call.class_probability_matrix = BINARY_PROBABILITY_MATRIX) =>
        /\ ~result.raised
        /\ result.value = NEGATIVE_AUC
        /\ FNeg(result.value) = Rat(3, 4)

C11_Witness ==
    /\ Called("negative_auc_function")
    /\ call.target_values = BINARY_TARGET_VALUES
    /\ call.class_probability_matrix = BINARY_PROBABILITY_MATRIX
    /\ result = Returned(Rat(-3, 4))

-----------------------------------------------------------------------------
(* Claims about the arguments of get_binarization_thresholds *)

ValuesOf(a) == {a[i] : i \in DOMAIN a}

IsStrictlyAscending(a) == \A i \in 1..(Len(a) - 1) : a[i] < a[i + 1]

\* x is the multiple of base nearest to p
IsNearestMultiple(x, p, base) ==
    /\ x % base = 0
    /\ 2 * Abs(x - p) <= base

IsPaddedSortedCopy(v, u) ==
    LET prepended == \A i \in DOMAIN u : u[i] > 0
        appended == \A i \in DOMAIN u : u[i] < ONE + 1
    IN  /\ IsAscending(v)
        /\ \A x \in ValuesOf(u) \cup ValuesOf(v) :
              NumEqual(v, x) = NumEqual(u, x)
                  + (IF prepended /\ x = 0 THEN 1 ELSE 0)
                  + (IF appended /\ x = ONE + 1 THEN 1 ELSE 0)

\* C20 as stated: an array of thresholds is accepted only if all its values
\* lie in [0, 1]; the accepted values are returned sorted, with duplicates,
\* and padded.
C20_ArrayWithinZeroAndOne ==
    (/\ Called("get_binarization_thresholds")
     /\ call.threshold_arg.kind = "ndarray") =>
        LET u == call.threshold_arg.array
        IN  /\ ~result.raised => \A i \in DOMAIN u : u[i] >= 0 /\ u[i] <= ONE
            /\ ~result.raised => IsPaddedSortedCopy(result.value, u)

\* C20 amended: the array is accepted if and only if it is not empty and all
\* its values lie in [0, 1 + 1e-6]: a value in (1, 1 + 1e-6] passes.
C20_ArrayWithinZeroAndMaxThreshold ==
    (/\ Called("get_binarization_thresholds")
     /\ call.threshold_arg.kind = "ndarray") =>
        LET u == call.threshold_arg.array
        IN  /\ ~result.raised <=>
                  /\ u # <<>>
                  /\ \A i \in DOMAIN u : u[i] >= 0 /\ u[i] <= ONE + 1
            /\ ~result.raised => IsPaddedSortedCopy(result.value, u)

\* the array (1 + 1e-6, 0.5, 0.5) is accepted and comes back sorted, the
\* duplicate kept, with 0 in front
C20_Witness ==
    /\ Called("get_binarization_thresholds") /\ ~result.raised
    /\ call.threshold_arg = ArrayArg(<<ONE + 1, ONE \div 2, ONE \div 2>>)
    /\ result.value = <<0, ONE \div 2, ONE \div 2, ONE + 1>>

-----------------------------------------------------------------------------
(* Claims about the functions that take the forecasts and the labels *)

\* C17: no function changes the caller's forecast_probabilities or
\* observed_labels: after any call, get_cross_entropy included, the two
\* arrays hold exactly the values they held before the call.
C17_ArraysAreLeftAsGiven ==
    (/\ pc = "done"
     /\ call.fn \in {"get_brier_score", "get_cross_entropy",
                     "get_points_in_reliability_curve",
                     "bootstrap_roc_curve", "bootstrap_performance_diagram",
                     "bootstrap_reliability_curve"}) =>
        arrays = ArraysOfCaller(call.forecast_probabilities,
                                call.observed_labels)

-----------------------------------------------------------------------------
(* The confidence envelopes of the bootstrap functions *)

\* a bootstrap function has returned its envelope
Enveloped(fn) == Called(fn) /\ ~result.raised

\* the keys of the series by threshold or by bin, and of the scalars, in the
\* dictionaries of a bootstrap function
SeriesKeys(fn) ==
    CASE fn = "bootstrap_roc_curve" -> {"pofd_by_threshold", "pod_by_threshold"}
      [] fn = "bootstrap_performance_diagram" ->
             {"pod_by_threshold", "success_ratio_by_threshold"}
      [] fn = "bootstrap_reliability_curve" ->
             {"mean_forecast_prob_by_bin", "mean_observed_label_by_bin"}

ScalarKeys(fn) ==
    CASE fn = "bootstrap_roc_curve" -> {"area_under_curve"}
      [] fn = "bootstrap_performance_diagram" -> {"max_csi_over_thresholds"}
      [] fn = "bootstrap_reliability_curve" ->
             {"brier_skill_score", "brier_score", "reliability", "resolution"}

\* the values of one quantity across the bootstrap iterations of the call
SeriesAcrossIterations(key, i) ==
    [j \in DOMAIN result.value.iterations |->
        result.value.iterations[j][key][i]]

ScalarAcrossIterations(key) ==
    [j \in DOMAIN result.value.iterations |-> result.value.iterations[j][key]]

\* the (1 - confidence) / 2 and the 1 - (1 - confidence) / 2 percentile
LowerPercentile(stat_values) ==
    NanPercentile(stat_values,
                  FMul(Rat(100, 1),
                       FMul(FSub(FOne, call.confidence_level), Rat(1, 2))))

UpperPercentile(stat_values) ==
    NanPercentile(stat_values,
                  FMul(Rat(100, 1),
                       FSub(FOne, FMul(FSub(FOne, call.confidence_level),
                                       Rat(1, 2)))))

\* x <= y, or one of the two is NaN
LeqOrNaN(x, y) == IsNaN(x) \/ IsNaN(y) \/ FLeq(x, y)

\* bottom holds the lower and top the upper percentile of the series
IsEnvelopeOfSeries(key) ==
    \A i \in DOMAIN result.value.bottom[key] :
        /\ result.value.bottom[key][i]
               = LowerPercentile(SeriesAcrossIterations(key, i))
        /\ result.value.top[key][i]
               = UpperPercentile(SeriesAcrossIterations(key, i))
        /\ LeqOrNaN(result.value.bottom[key][i], result.value.top[key][i])

\* bottom holds the upper and top the lower percentile of the series
IsInvertedEnvelopeOfSeries(key) ==
    \A i \in DOMAIN result.value.bottom[key] :
        /\ result.value.bottom[key][i]
               = UpperPercentile(SeriesAcrossIterations(key, i))
        /\ result.value.top[key][i]
               = LowerPercentile(SeriesAcrossIterations(key, i))
        /\ LeqOrNaN(result.value.top[key][i], result.value.bottom[key][i])

IsEnvelopeOfScalar(key) ==
    /\ result.value.bottom[key]
           = LowerPercentile(ScalarAcrossIterations(key))
    /\ result.value.top[key] = UpperPercentile(ScalarAcrossIterations(key))
    /\ LeqOrNaN(result.value.bottom[key], result.value.top[key])

\* the series whose two percentiles the code assigns to (top, bottom)
InvertedKeys == {"pofd_by_threshold", "mean_forecast_prob_by_bin"}

\* C12 as stated: for every series and every scalar of the three bootstrap
\* functions, bottom is the (1 - confidence) / 2 percentile and top the
\* 1 - (1 - confidence) / 2 percentile across the iterations, and
\* bottom <= top (where neither is NaN).
C12_BottomIsLowerPercentile ==
    \A fn \in BootstrapFunctions :
        Enveloped(fn) =>
            /\ \A key \in SeriesKeys(fn) : IsEnvelopeOfSeries(key)
            /\ \A key \in ScalarKeys(fn) : IsEnvelopeOfScalar(key)

\* C12: for every series and every scalar of the three bootstrap functions
\* but POFD and the mean forecast probability, bottom is the
\* (1 - confidence) / 2 percentile and top the 1 - (1 - confidence) / 2
\* percentile across the iterations, and bottom <= top where neither is NaN;
\* for POFD (bootstrap_roc_curve) and the mean forecast probability
\* (bootstrap_reliability_curve) bottom is the upper and top the lower
\* percentile, so top <= bottom.
C12_BottomIsLowerPercentileButOfPofdAndMeanForecast ==
    \A fn \in BootstrapFunctions :
        Enveloped(fn) =>
            /\ \A key \in SeriesKeys(fn) \ InvertedKeys :
                   IsEnvelopeOfSeries(key)
            /\ \A key \in SeriesKeys(fn) \cap InvertedKeys :
                   IsInvertedEnvelopeOfSeries(key)
            /\ \A key \in ScalarKeys(fn) : IsEnvelopeOfScalar(key)

\* x < y, neither being NaN
IsBelow(x, y) == ~IsNaN(x) /\ ~IsNaN(y) /\ x # y /\ FLeq(x, y)

\* bootstrap_reliability_curve returned an envelope where, in one bin, the
\* bottom of the mean observed label is below its top and the bottom of the
\* mean forecast probability above its top
C12_Witness ==
    /\ Enveloped("bootstrap_reliability_curve")
    /\ \E i \in 1..call.num_forecast_bins :
          /\ IsBelow(result.value.bottom.mean_observed_label_by_bin[i],
                     result.value.top.mean_observed_label_by_bin[i])
          /\ IsBelow(result.value.top.mean_forecast_prob_by_bin[i],
                     result.value.bottom.mean_forecast_prob_by_bin[i])

-----------------------------------------------------------------------------
(* Thresholds and bins of the bootstrap functions *)

EnvelopeParts == {"bottom", "mean", "top"}

\* the thresholds of the whole dataset of the call
ThresholdsOfCall ==
    get_binarization_thresholds(call.threshold_arg,
                                call.forecast_probabilities,
                                call.unique_forecast_precision).value

\* the number of examples among those at the given indices whose forecast
\* is in bin i (from 1) of the call's bins
NumInBin(indices, i) ==
    Cardinality({k \in DOMAIN indices :
        split_forecast_probs_into_bins(
            <<call.forecast_probabilities[indices[k]]>>,
            call.num_forecast_bins)[1] = i - 1})

\* every series of the envelope and of every iteration has num_values values
SeriesHaveLength(fn, num_values) ==
    \A key \in SeriesKeys(fn) :
        /\ \A part \in EnvelopeParts :
               Len(result.value[part][key]) = num_values
        /\ \A j \in DOMAIN result.value.iterations :
               Len(result.value.iterations[j][key]) = num_values

\* C13: the thresholds (the bins) of a bootstrap function are those of the
\* whole dataset; every series of bottom, mean and top has one value per
\* threshold (per bin); in every iteration the contingency table at index i
\* is that of the sample at threshold i of the whole dataset (the count of
\* bin i that of the sample in bin i of the whole dataset); and
\* num_examples_by_bin of bootstrap_reliability_curve counts the examples of
\* the data as given.
C13_ThresholdsAndBinsOfWholeDataset ==
    /\ \A fn \in {"bootstrap_roc_curve", "bootstrap_performance_diagram"} :
          Enveloped(fn) =>
              /\ result.value.binarization_thresholds = ThresholdsOfCall
              /\ SeriesHaveLength(fn, Len(ThresholdsOfCall))
              /\ \A j \in DOMAIN result.value.iterations :
                 \A i \in DOMAIN ThresholdsOfCall :
                     result.value.iterations[j].contingency_tables[i]
                         = TableAtThreshold(
                               result.value.iterations[j]
                                   .forecast_probabilities,
                               result.value.iterations[j].observed_labels,
                               ThresholdsOfCall[i]).value
    /\ Enveloped("bootstrap_reliability_curve") =>
          /\ SeriesHaveLength("bootstrap_reliability_curve",
                              call.num_forecast_bins)
          /\ Len(result.value.num_examples_by_bin) = call.num_forecast_bins
          /\ \A i \in 1..call.num_forecast_bins :
                /\ result.value.num_examples_by_bin[i]
                       = NumInBin([e \in DOMAIN call.forecast_probabilities
                                      |-> e], i)
                /\ \A j \in DOMAIN result.value.iterations :
                       result.value.iterations[j].num_examples_by_bin[i]
                           = NumInBin(call.sample_indices[j], i)

\* bootstrap_roc_curve returned for the unique forecasts as thresholds, and
\* one sample has not the forecasts of the whole dataset twice
C13_Witness ==
    /\ Enveloped("bootstrap_roc_curve")
    /\ call.threshold_arg = StringArg(THRESHOLD_ARG_FOR_UNIQUE_FORECASTS)
    /\ Len(result.value.binarization_thresholds) > 3
    /\ \E j \in DOMAIN result.value.iterations :
          ValuesOf(result.value.iterations[j].forecast_probabilities)
              # ValuesOf(call.forecast_probabilities)

-----------------------------------------------------------------------------
(* The samples of the bootstrap functions *)

\* the number of sampled examples with a forecast at or above the threshold
\* (or below it) and the given label
NumSampled(indices, threshold, is_yes, label) ==
    Cardinality({k \in DOMAIN indices :
        /\ (call.forecast_probabilities[indices[k]] >= threshold) = is_yes
        /\ call.observed_labels[indices[k]] = label})

\* the contingency table of the sampled pairs at the threshold
TableOfSampledPairs(indices, threshold) ==
    [num_true_positives |-> NumSampled(indices, threshold, TRUE, 1),
     num_false_positives |-> NumSampled(indices, threshold, TRUE, 0),
     num_false_negatives |-> NumSampled(indices, threshold, FALSE, 1),
     num_true_negatives |-> NumSampled(indices, threshold, FALSE, 0)]

\* the sampled examples whose forecast is in bin i (from 1)
SampledInBin(indices, i) ==
    SelectSeq(indices, LAMBDA e :
        split_forecast_probs_into_bins(<<call.forecast_probabilities[e]>>,
                                       call.num_forecast_bins)[1] = i - 1)

\* C14: in every iteration of a bootstrap function the sample has as many
\* examples as the dataset, each of its (probability, label) pairs is a pair
\* of the dataset, the contingency table of every threshold is that of the
\* sampled pairs and sums to N, and the means and the count of every bin are
\* those of the sampled pairs in the bin, the counts summing to N.
C14_SamplesArePairsOfTheDataset ==
    \A fn \in BootstrapFunctions :
        Enveloped(fn) =>
            LET N == Len(call.forecast_probabilities)
            IN  \A j \in DOMAIN result.value.iterations :
                LET iteration == result.value.iterations[j]
                    indices == call.sample_indices[j]
                IN  /\ indices \in SampleIndices(N)
                    /\ Len(iteration.forecast_probabilities) = N
                    /\ Len(iteration.observed_labels) = N
                    /\ \A k \in 1..N : \E e \in 1..N :
                          /\ iteration.forecast_probabilities[k]
                                 = call.forecast_probabilities[e]
                          /\ iteration.observed_labels[k]
                                 = call.observed_labels[e]
                    /\ fn # "bootstrap_reliability_curve" =>
                          \A i \in DOMAIN result.value.binarization_thresholds :
                              LET t == iteration.contingency_tables[i]
                              IN  /\ t = TableOfSampledPairs(
                                             indices,
                                             result.value
                                                 .binarization_thresholds[i])
                                  /\ t.num_true_positives
                                         + t.num_false_positives
                                         + t.num_false_negatives
                                         + t.num_true_negatives = N
                    /\ fn = "bootstrap_reliability_curve" =>
                          /\ IntSum(iteration.num_examples_by_bin) = N
                          /\ \A i \in 1..call.num_forecast_bins :
                                LET in_bin == SampledInBin(indices, i)
                                IN  /\ iteration.num_examples_by_bin[i]
                                           = Len(in_bin)
                                    /\ iteration.mean_forecast_prob_by_bin[i]
                                           = MeanOf(Take(
                                                 call.forecast_probabilities,
                                                 in_bin), ONE)
                                    /\ iteration.mean_observed_label_by_bin[i]
                                           = MeanOf(Take(call.observed_labels,
                                                         in_bin), 1)

\* bootstrap_performance_diagram returned for a dataset with an event and a
\* non-event, and one sample holds the same example twice
C14_Witness ==
    /\ Enveloped("bootstrap_performance_diagram")
    /\ ValuesOf(call.observed_labels) = {0, 1}
    /\ \E j \in DOMAIN call.sample_indices :
          Cardinality(ValuesOf(call.sample_indices[j])) = 1

-----------------------------------------------------------------------------
(* Two runs of a bootstrap function *)

-----------------------------------------------------------------------------
(* Validation of the arguments *)

\* C16 as stated: a bootstrap function called with a num_bootstrap_iters
\* that is not an integer greater than 1 raises an error and has drawn no
\* sample.
C16_NumBootstrapItersIsChecked ==
    \A fn \in BootstrapFunctions :
        Called(fn) /\ ~IsIntegerGreaterThanOne(call.num_bootstrap_iters) =>
            result.raised /\ call.sample_indices = <<>>

\* the entry points that take forecast probabilities and observed labels
DatasetFunctions ==
    {"get_brier_score", "get_cross_entropy", "get_points_in_roc_curve",
     "get_points_in_performance_diagram", "get_points_in_reliability_curve"}
    \cup BootstrapFunctions

\* a probability outside [0, 1], a label outside {0, 1}, or two arrays of
\* different lengths
IsRefusedDataset(forecast_probabilities, observed_labels) ==
    \/ \E i \in DOMAIN forecast_probabilities :
          forecast_probabilities[i] < 0 \/ forecast_probabilities[i] > ONE
    \/ \E i \in DOMAIN observed_labels : observed_labels[i] \notin {0, 1}
    \/ Len(forecast_probabilities) # Len(observed_labels)

-----------------------------------------------------------------------------
(* Claims about the decomposition of the Brier score *)

\* the bins of the call whose two means are numbers
BinsWithMeans ==
    {i \in DOMAIN call.mean_forecast_prob_by_bin :
        /\ ~IsNaN(call.mean_forecast_prob_by_bin[i])
        /\ ~IsNaN(call.mean_observed_label_by_bin[i])}

\* the bins of the call whose mean observed label is a number
BinsWithObservedMean ==
    {i \in DOMAIN call.mean_observed_label_by_bin :
        ~IsNaN(call.mean_observed_label_by_bin[i])}

\* n_b * (x_b - y)^2 of bin i of the call
WeightedSquare(i, x, y) ==
    FMul(Rat(call.num_examples_by_bin[i], 1), FMul(FSub(x, y), FSub(x, y)))

RECURSIVE SumOverBins(_, _)
\* the sum of terms[i] over the bins i of a set
SumOverBins(terms, bins) ==
    IF bins = {} THEN FZero
    ELSE LET i == CHOOSE j \in bins : TRUE
         IN  FAdd(terms[i], SumOverBins(terms, bins \ {i}))

ReliabilityNumerator ==
    SumOverBins([i \in DOMAIN call.mean_forecast_prob_by_bin |->
                    WeightedSquare(i, call.mean_forecast_prob_by_bin[i],
                                   call.mean_observed_label_by_bin[i])],
                BinsWithMeans)

ResolutionNumerator ==
    SumOverBins([i \in DOMAIN call.mean_observed_label_by_bin |->
                    WeightedSquare(i, call.mean_observed_label_by_bin[i],
                                   call.climatology)],
                BinsWithObservedMean)

NumExamplesOfCall ==
    SumOverBins([i \in DOMAIN call.num_examples_by_bin |->
                    Rat(call.num_examples_by_bin[i], 1)],
                DOMAIN call.num_examples_by_bin)

\* x = numerator / denominator, which is NaN at 0 / 0
IsQuotient(x, numerator, denominator) ==
    IF denominator = FZero
    THEN numerator = FZero /\ IsNaN(x)
    ELSE IsNum(x) /\ FMul(x, denominator) = numerator

\* the bins of the call that hold examples or a mean, in order
OccupiedBins ==
    SelectSeq([i \in DOMAIN call.num_examples_by_bin |-> i],
              LAMBDA i : ~(/\ call.num_examples_by_bin[i] = 0
                           /\ IsNaN(call.mean_forecast_prob_by_bin[i])
                           /\ IsNaN(call.mean_observed_label_by_bin[i])))

\* C21: get_brier_skill_score returns uncertainty = c * (1 - c),
\* reliability = sum_b n_b * (f_b - o_b)^2 / sum_b n_b and
\* resolution = sum_b n_b * (o_b - c)^2 / sum_b n_b, where a bin whose means
\* are NaN adds nothing to either numerator, and
\* brier_score = uncertainty + reliability - resolution; the result is that
\* of the call on the three arrays without their empty bins.
C21_BrierDecomposition ==
    (Called("get_brier_skill_score") /\ ~result.raised) =>
        LET v == result.value
            c == call.climatology
        IN  /\ v.uncertainty = Rat(c.n * (c.d - c.n), c.d * c.d)
            /\ IsQuotient(v.reliability, ReliabilityNumerator,
                          NumExamplesOfCall)
            /\ IsQuotient(v.resolution, ResolutionNumerator,
                          NumExamplesOfCall)
            /\ v.brier_score =
                   FAdd(v.uncertainty, FSub(v.reliability, v.resolution))
            /\ result =
                   get_brier_skill_score(
                       Take(call.mean_forecast_prob_by_bin, OccupiedBins),
                       Take(call.mean_observed_label_by_bin, OccupiedBins),
                       Take(call.num_examples_by_bin, OccupiedBins),
                       call.climatology)

\* a call with an empty bin and a bin of examples, whose reliability and
\* resolution are numbers that differ
C21_Witness ==
    /\ Called("get_brier_skill_score") /\ ~result.raised
    /\ Len(OccupiedBins) = 1
    /\ Len(call.num_examples_by_bin) = 2
    /\ IsNum(result.value.reliability) /\ IsNum(result.value.resolution)
    /\ result.value.reliability # FZero
    /\ result.value.resolution # FZero
    /\ result.value.reliability # result.value.resolution

-----------------------------------------------------------------------------
(* Claims about the reliability curve *)

\* the examples of the call whose forecast lies in bin b (from 1) of
\* num_bins bins of equal width over [0, 1], 1 lying in the last bin
ExamplesInBin(b, num_bins) ==
    {i \in DOMAIN call.forecast_probabilities :
        LET p == call.forecast_probabilities[i]
        IN  \/ (b - 1) * ONE <= p * num_bins /\ p * num_bins < b * ONE
            \/ b = num_bins /\ p = ONE}

RECURSIVE SumOf(_, _)
\* the sum of a[i] over the indices i of a set
SumOf(a, indices) ==
    IF indices = {} THEN 0
    ELSE LET i == CHOOSE j \in indices : TRUE
         IN  a[i] + SumOf(a, indices \ {i})

\* C22: get_points_in_reliability_curve puts every forecast in exactly one
\* of num_forecast_bins bins of equal width over [0, 1] (a probability of 1
\* in the last bin) and returns, for each bin, the number of its examples,
\* their mean forecast probability and their mean observed label; an empty
\* bin has count 0 and NaN for both means, and the counts sum to N.
C22_ReliabilityCurveOfEqualWidthBins ==
    (Called("get_points_in_reliability_curve") /\ ~result.raised) =>
        LET v == result.value
            B == call.num_forecast_bins
            N == Len(call.forecast_probabilities)
        IN  /\ \A i \in 1..N :
                  Cardinality({b \in 1..B : i \in ExamplesInBin(b, B)}) = 1
            /\ DOMAIN v.num_examples_by_bin = 1..B
            /\ DOMAIN v.mean_forecast_prob_by_bin = 1..B
            /\ DOMAIN v.mean_observed_label_by_bin = 1..B
            /\ \A b \in 1..B :
                  LET members == ExamplesInBin(b, B)
                      n == Cardinality(members)
                  IN  /\ v.num_examples_by_bin[b] = n
                      /\ n = 0 =>
                            /\ IsNaN(v.mean_forecast_prob_by_bin[b])
                            /\ IsNaN(v.mean_observed_label_by_bin[b])
                      /\ n > 0 =>
                            /\ IsRatio(v.mean_forecast_prob_by_bin[b],
                                       SumOf(call.forecast_probabilities,
                                             members), n * ONE)
                            /\ IsRatio(v.mean_observed_label_by_bin[b],
                                       SumOf(call.observed_labels, members),
                                       n)
            /\ IntSum(v.num_examples_by_bin) = N

\* two bins, the first empty, the second with a forecast of 1/2 and one of 1
C22_Witness ==
    /\ Called("get_points_in_reliability_curve") /\ ~result.raised
    /\ call.num_forecast_bins = 2
    /\ call.forecast_probabilities = <<ONE \div 2, ONE>>
    /\ result.value.num_examples_by_bin = <<0, 2>>
    /\ IsNaN(result.value.mean_forecast_prob_by_bin[1])
    /\ result.value.mean_forecast_prob_by_bin[2] = Rat(3, 4)

-----------------------------------------------------------------------------
(* Claims about the complements of the scores *)

\* the score that each of the four complements is one minus
ComplementedScore ==
    [get_fom |-> "get_pod", get_far |-> "get_success_ratio",
     get_npv |-> "get_pofd", get_focn |-> "get_dfr"]

\* x = 1 - y, which is NaN exactly when y is
IsComplement(x, y) ==
    /\ IsNaN(x) <=> IsNaN(y)
    /\ ~IsNaN(y) =>
          /\ IsNum(x) /\ IsNum(y)
          /\ x.n * y.d + y.n * x.d = x.d * y.d

\* C23: for every contingency table get_fom = 1 - get_pod,
\* get_far = 1 - get_success_ratio, get_npv = 1 - get_pofd and
\* get_focn = 1 - get_dfr, each complement being NaN exactly when the score
\* it complements is NaN.
C23_ScoreComplements ==
    (pc = "done" /\ call.fn \in DOMAIN ComplementedScore) =>
        /\ ~result.raised
        /\ IsComplement(result.value,
                        ApplyScore(ComplementedScore[call.fn],
                                   call.contingency_table_as_dict))

\* a false-alarm rate of 1/3 of a table whose success ratio is 2/3
C23_Witness ==
    /\ ScoreCalled("get_far") /\ TP = 2 /\ FP = 1
    /\ ~result.raised /\ result.value = Rat(1, 3)
    /\ get_success_ratio(call.contingency_table_as_dict) = Rat(2, 3)

-----------------------------------------------------------------------------
(* Claims about the bootstrapped cost *)

\* C24: bootstrap_cost called with num_replicates = R returns an array of
\* exactly R cost values for every R >= 1; with R = 1 the value is the cost
\* of the examples as given, not resampled: -0.75 for the binary example of
\* the unit tests with negative_auc_function.
C24_OneCostForEachReplicate ==
    Called("bootstrap_cost") =>
        /\ ~result.raised
        /\ Len(result.value) = call.num_replicates
        /\ call.num_replicates = 1 =>
              \E sort_indices \in CostSortIndices(
                                      call.target_values,
                                      call.class_probability_matrix) :
                  Returned(result.value[1]) =
                      negative_auc_function(call.target_values,
                                            call.class_probability_matrix,
                                            sort_indices)
        /\ (/\ call.num_replicates = 1
            /\ call.target_values = BINARY_TARGET_VALUES
            /\ call.class_probability_matrix = BINARY_PROBABILITY_MATRIX) =>
              result.value = <<NEGATIVE_AUC>>

\* the one replicate of the example of the unit tests
C24_Witness ==
    /\ Called("bootstrap_cost") /\ ~result.raised
    /\ call.num_replicates = 1
    /\ call.target_values = BINARY_TARGET_VALUES
    /\ call.class_probability_matrix = BINARY_PROBABILITY_MATRIX
    /\ result.value = <<Rat(-3, 4)>>

-----------------------------------------------------------------------------
(* Claims about SPC dates *)

\* 1200 UTC of the last noon at or before a time
NoonBefore(unix_time_sec) ==
    IF unix_time_sec.seconds >= 12 * 3600
    THEN [days |-> unix_time_sec.days, seconds |-> 12 * 3600]
    ELSE [days |-> unix_time_sec.days - 1, seconds |-> 12 * 3600]

\* a time lies in its SPC date, which runs for 86400 seconds from the last
\* noon, and the functions of SPC dates agree on it
LiesInItsSpcDate(t) ==
    LET d == time_to_spc_date_string(t)
        start == get_start_of_spc_date(d)
        end == get_end_of_spc_date(d)
        noon == NoonBefore(t)
    IN  /\ ~start.raised /\ ~end.raised
        /\ start.value = noon
        /\ end.value = [days |-> noon.days + 1, seconds |-> 12 * 3600 - 1]
        /\ TimeLeq(start.value, t) /\ TimeLeq(t, end.value)
        /\ string_to_unix_sec(d)
               = Returned([days |-> noon.days, seconds |-> 0])
        /\ is_time_in_spc_date(t, d) = Returned(TRUE)
        /\ spc_date_string_to_unix_sec(d)
               = Returned(time_to_spc_date_unix_sec(t))
        /\ time_to_spc_date_unix_sec(t)
               = [days |-> noon.days, seconds |-> 18 * 3600]

\* the noon before a time is in a calendar year from 1000 to 9999
SpcDateHasFourDigitYear(unix_time_sec) ==
    /\ DaysBeforeYear(1000) <= NoonBefore(unix_time_sec).days
    /\ NoonBefore(unix_time_sec).days < DaysBeforeYear(10000)

-----------------------------------------------------------------------------
(* Claims about the no-skill line *)

\* x is strictly between 0 and 1
IsInsideUnit(x) == IsNum(x) /\ 0 < x.n /\ x.n < x.d

\* C27: for every climatology c in (0, 1) and forecast f in [0, 1], a point
\* of the line returned by get_no_skill_reliability_curve(c), which goes
\* through (0, c/2) and (1, (1+c)/2), so observed frequency o = (f + c) / 2,
\* gives reliability = resolution and brier_skill_score = 0 as the one bin,
\* not empty, of get_brier_skill_score with climatology c.
C27_NoSkillLineHasNoSkill ==
    /\ (/\ Called("get_no_skill_reliability_curve")
        /\ IsInsideUnit(call.mean_observed_label)) =>
          LET c == call.mean_observed_label
          IN  /\ ~result.raised
              /\ result.value.x_values = <<FZero, FOne>>
              /\ result.value.y_values
                     = <<Rat(c.n, 2 * c.d), Rat(c.d + c.n, 2 * c.d)>>
    /\ (/\ Called("get_brier_skill_score")
        /\ "no_skill_line" \in DOMAIN call
        /\ IsInsideUnit(call.climatology)) =>
          LET c == call.climatology
              f == call.mean_forecast_prob_by_bin[1]
              o == call.mean_observed_label_by_bin[1]
          IN  /\ o = Rat(f.n * c.d + c.n * f.d, 2 * f.d * c.d)
              /\ ~result.raised
              /\ IsNum(result.value.reliability)
              /\ result.value.reliability = result.value.resolution
              /\ result.value.brier_skill_score = FZero

\* climatology 1/4 and forecast 1: the point (1, 5/8) has reliability and
\* resolution 9/64
C27_Witness ==
    /\ Called("get_brier_skill_score")
    /\ "no_skill_line" \in DOMAIN call
    /\ call.climatology = Rat(1, 4)
    /\ call.mean_forecast_prob_by_bin = <<FOne>>
    /\ call.mean_observed_label_by_bin = <<Rat(5, 8)>>
    /\ ~result.raised
    /\ result.value.reliability = Rat(9, 64)
    /\ result.value.resolution = Rat(9, 64)
    /\ result.value.brier_skill_score = FZero

-----------------------------------------------------------------------------
(* Claims about the area under the ROC curve of a dataset *)

\* the pairs of an example with label 1 and an example with label 0
RankedPairs(observed_labels) ==
    {pair \in (DOMAIN observed_labels) \X (DOMAIN observed_labels) :
        observed_labels[pair[1]] = 1 /\ observed_labels[pair[2]] = 0}

\* twice the number of pairs whose positive example has the higher
\* probability, a tie counting one half
TwiceThePairsRankedRight(forecast_probabilities, observed_labels) ==
    2 * Cardinality({pair \in RankedPairs(observed_labels) :
                        forecast_probabilities[pair[1]]
                            > forecast_probabilities[pair[2]]})
    + Cardinality({pair \in RankedPairs(observed_labels) :
                      forecast_probabilities[pair[1]]
                          = forecast_probabilities[pair[2]]})

\* numpy.argsort has left the points of equal POFD in the order of the
\* thresholds
KeepsOrderOfThresholds(pofd_by_threshold, sort_indices) ==
    \A i, j \in DOMAIN sort_indices :
        (i < j /\ pofd_by_threshold[sort_indices[i]]
                      = pofd_by_threshold[sort_indices[j]]) =>
            sort_indices[i] < sort_indices[j]

HasBothLabels(observed_labels) ==
    /\ \E i \in DOMAIN observed_labels : observed_labels[i] = 1
    /\ \E i \in DOMAIN observed_labels : observed_labels[i] = 0

AreaOfOrderedPointsIsFractionOfPairs ==
    (/\ Called("get_area_under_roc_curve")
     /\ "forecast_probabilities" \in DOMAIN call
     /\ HasBothLabels(call.observed_labels)
     /\ KeepsOrderOfThresholds(call.pofd_by_threshold, call.sort_indices)) =>
        /\ ~result.raised
        /\ IsRatio(result.value,
                   TwiceThePairsRankedRight(call.forecast_probabilities,
                                            call.observed_labels),
                   2 * Cardinality(RankedPairs(call.observed_labels)))

-----------------------------------------------------------------------------
(* The mean of the envelope of the bootstrap functions *)

\* the mean is the NaN-ignoring mean of the values and lies from low to high
\* (where none of the three is NaN)
IsMeanWithin(mean, stat_values, low, high) ==
    /\ mean = NanMean(stat_values)
    /\ LeqOrNaN(low, mean)
    /\ LeqOrNaN(mean, high)

\* the mean of the series lies from its bottom to its top
MeanOfSeriesIsWithin(key) ==
    \A i \in DOMAIN result.value.mean[key] :
        IsMeanWithin(result.value.mean[key][i],
                     SeriesAcrossIterations(key, i),
                     result.value.bottom[key][i], result.value.top[key][i])

\* the mean of the series lies from its top to its bottom
MeanOfSeriesIsWithinInverted(key) ==
    \A i \in DOMAIN result.value.mean[key] :
        IsMeanWithin(result.value.mean[key][i],
                     SeriesAcrossIterations(key, i),
                     result.value.top[key][i], result.value.bottom[key][i])

MeanOfScalarIsWithin(key) ==
    IsMeanWithin(result.value.mean[key], ScalarAcrossIterations(key),
                 result.value.bottom[key], result.value.top[key])

\* the mean of every series and of every scalar lies between its bottom and
\* its top: from bottom to top, or from top to bottom for the two series
\* whose percentiles the code assigns the other way round
EnvelopeHoldsMean(fn) ==
    /\ \A key \in SeriesKeys(fn) \ InvertedKeys : MeanOfSeriesIsWithin(key)
    /\ \A key \in SeriesKeys(fn) \cap InvertedKeys :
           MeanOfSeriesIsWithinInverted(key)
    /\ \A key \in ScalarKeys(fn) : MeanOfScalarIsWithin(key)

-----------------------------------------------------------------------------
(* Claims about the Brier score of the decomposition *)

\* the forecasts that fall in the same bin are equal
EqualForecastsInEveryBin(forecast_probabilities, num_forecast_bins) ==
    \A i, j \in DOMAIN forecast_probabilities :
        split_forecast_probs_into_bins(forecast_probabilities,
                                       num_forecast_bins)[i]
            = split_forecast_probs_into_bins(forecast_probabilities,
                                             num_forecast_bins)[j]
        => forecast_probabilities[i] = forecast_probabilities[j]

\* get_brier_skill_score was called with the reliability curve of a dataset
DecompositionCalled ==
    Called("get_brier_skill_score") /\ "num_forecast_bins" \in DOMAIN call

\* the sum of the squares of twice the differences between the forecasts,
\* which are multiples of 0.5, and the labels
SquaredDifferences(forecast_probabilities, observed_labels) ==
    IntSum([i \in DOMAIN forecast_probabilities |->
               ((2 * forecast_probabilities[i]) \div ONE
                    - 2 * observed_labels[i])
               * ((2 * forecast_probabilities[i]) \div ONE
                      - 2 * observed_labels[i])])

BrierScoreOfCall ==
    get_brier_score(call.forecast_probabilities, call.observed_labels)

\* C30: when all forecasts that fall in the same bin are equal and the
\* climatology is the mean of the observed labels, brier_score of
\* get_brier_skill_score on the output of get_points_in_reliability_curve
\* equals get_brier_score(forecast_probabilities, observed_labels), the
\* mean squared difference of forecasts and labels; without equal forecasts
\* in every bin the two may differ: forecasts 0 and 1 with labels 0 and 1 in
\* one bin give 1/4 and 0.
C30_BrierScoreOfDecomposition ==
    /\ (/\ DecompositionCalled
        /\ EqualForecastsInEveryBin(call.forecast_probabilities,
                                    call.num_forecast_bins)) =>
           /\ ~result.raised
           /\ ~BrierScoreOfCall.raised
           /\ IsNum(result.value.brier_score)
           /\ result.value.brier_score = BrierScoreOfCall.value
           /\ IsRatio(BrierScoreOfCall.value,
                      SquaredDifferences(call.forecast_probabilities,
                                         call.observed_labels),
                      Len(call.forecast_probabilities) * 4)
    /\ (/\ DecompositionCalled
        /\ call.forecast_probabilities = <<0, ONE>>
        /\ call.observed_labels = <<0, 1>>
        /\ call.num_forecast_bins = 1) =>
           /\ result.value.brier_score = Rat(1, 4)
           /\ BrierScoreOfCall.value = FZero

\* forecasts 0, 0.5 and 0.5 with labels 0, 0 and 1 in two bins: no
\* reliability term, resolution 1/18, and both Brier scores are 1/6
C30_Witness ==
    /\ DecompositionCalled
    /\ call.forecast_probabilities = <<0, ONE \div 2, ONE \div 2>>
    /\ call.observed_labels = <<0, 0, 1>>
    /\ call.num_forecast_bins = 2
    /\ call.num_examples_by_bin = <<1, 2>>
    /\ call.climatology = Rat(1, 3)
    /\ result.value.reliability = FZero
    /\ result.value.resolution = Rat(1, 18)
    /\ result.value.brier_score = Rat(1, 6)
    /\ BrierScoreOfCall.value = Rat(1, 6)

====
